---- MODULE Spec2Model ----
(***************************************************************************)
(* A model of the pylens bidirectional lens engine: the concrete input     *)
(* reader, the rollback engine, item meta data, the list and dict          *)
(* containers, the primitive lenses AnyOf, Literal and Empty, the          *)
(* combinators And, Or, Repeat and Group, and the Lens.get / Lens.put      *)
(* drivers.                                                                *)
(*                                                                         *)
(* Python objects live in a heap (a sequence of object records, an object  *)
(* is named by its index), because the engine depends on object identity:  *)
(* containers wrap the caller's list in place, snapshots are shallow       *)
(* copies, and list.remove compares by value.  None is the reference 0,    *)
(* or the empty tuple for optional values (Some(x) is <<x>>).              *)
(***************************************************************************)
EXTENDS Integers, Sequences, FiniteSets, TLC

\* ------------------------------------------------------------------------
\* Bounds of the model
\* ------------------------------------------------------------------------

\* Longest concrete input string drawn by Init.
MaxLen == 4

\* Iterations of one Repeat loop after which the model reports divergence.
MaxIter == 10

\* ------------------------------------------------------------------------
\* Characters and strings (a string is a sequence of one-character strings)
\* ------------------------------------------------------------------------

alphas == {"a", "b"}
nums == {"1"}
Char == alphas \cup nums

RECURSIVE StringsOfLen(_)
StringsOfLen(n) ==
  IF n = 0 THEN {<<>>}
  ELSE {Append(s, c) : s \in StringsOfLen(n - 1), c \in Char}

Strings == UNION {StringsOfLen(n) : n \in 0..MaxLen}

None == <<>>
Some(x) == <<x>>

\* util.has_value for a reference: None is the null reference 0.
has_value(ref) == ref # 0

\* int(s) for a one-digit string and str(n) for a one-digit number.
DigitOf == [c \in {"0", "1", "2", "3", "4", "5", "6", "7", "8", "9"} |->
             CASE c = "0" -> 0 [] c = "1" -> 1 [] c = "2" -> 2 [] c = "3" -> 3
               [] c = "4" -> 4 [] c = "5" -> 5 [] c = "6" -> 6 [] c = "7" -> 7
               [] c = "8" -> 8 [] OTHER -> 9]
CharOf == [n \in 0..9 |->
             CASE n = 0 -> "0" [] n = 1 -> "1" [] n = 2 -> "2" [] n = 3 -> "3"
               [] n = 4 -> "4" [] n = 5 -> "5" [] n = 6 -> "6" [] n = 7 -> "7"
               [] n = 8 -> "8" [] OTHER -> "9"]

\* int(s): defined on non-empty digit strings, ValueError otherwise.
IsIntString(s) == Len(s) > 0 /\ \A i \in 1..Len(s) : s[i] \in DOMAIN DigitOf
RECURSIVE StrToInt(_)
StrToInt(s) ==
  IF Len(s) = 0 THEN 0
  ELSE 10 * StrToInt(SubSeq(s, 1, Len(s) - 1)) + DigitOf[s[Len(s)]]

\* str(n) for a natural number.
RECURSIVE IntToStr(_)
IntToStr(n) ==
  IF n < 10 THEN <<CharOf[n]>>
  ELSE IntToStr(n \div 10) \o <<CharOf[n % 10]>>

\* ------------------------------------------------------------------------
\* Items and their meta data (item.py, util.Properties)
\* ------------------------------------------------------------------------

\* A Properties bag with nothing set: every attribute reads as None.
\* start/end are concrete_start_position / concrete_end_position (-1 is
\* None), src is the string of concrete_input_reader, label a reference.
NoMeta == [start |-> -1, end |-> -1, src |-> None, label |-> 0,
           is_label |-> FALSE, singleton |-> None]

\* Heap objects.  k is the python type; s, n, e hold the value of a str, an
\* int, a list (element references) or a dict (keys and e are parallel);
\* w tells whether the object is one of the *_wrapper classes, i.e. whether
\* it carries the _meta_data attribute m.
StrObj(s) == [k |-> "str", s |-> s, n |-> 0, e |-> <<>>, keys |-> <<>>,
              w |-> FALSE, m |-> NoMeta]
IntObj(n) == [k |-> "int", s |-> <<>>, n |-> n, e |-> <<>>, keys |-> <<>>,
              w |-> FALSE, m |-> NoMeta]
ListObj(e) == [k |-> "list", s |-> <<>>, n |-> 0, e |-> e, keys |-> <<>>,
               w |-> FALSE, m |-> NoMeta]
DictObj(keys, e) == [k |-> "dict", s |-> <<>>, n |-> 0, e |-> e, keys |-> keys,
                     w |-> FALSE, m |-> NoMeta]

\* The sys module of the process: n is the recursion limit.  A process that
\* uses a Forward lens has it as the first object of its heap.
SysObj(limit) == [k |-> "sys", s |-> <<>>, n |-> limit, e |-> <<>>,
                  keys |-> <<>>, w |-> FALSE, m |-> NoMeta]
SysRef == 1

\* sys.getrecursionlimit() / sys.setrecursionlimit(limit)
getrecursionlimit(H) == H[SysRef].n
setrecursionlimit(H, limit) == [H EXCEPT ![SysRef].n = limit]

\* Allocation of a new object: the new reference is Len(H) + 1.
Alloc(H, obj) == Append(H, obj)
NewRef(H) == Len(H) + 1

item_has_meta(H, ref) == H[ref].w

\* enable_meta_data as it would be without the test of item_has_meta: a
\* new wrapper with an empty Properties bag at every call.
enable_meta_data_always(H, ref) ==
  [H |-> Alloc(H, [H[ref] EXCEPT !.w = TRUE, !.m = NoMeta]),
   ref |-> NewRef(H)]

\* enable_meta_data: an object that already has meta data is returned as
\* it is; a plain str, int, list or dict is copied into a wrapper object
\* with an empty Properties bag.  Returns the heap and the reference.
enable_meta_data(H, ref) ==
  IF item_has_meta(H, ref) THEN [H |-> H, ref |-> ref]
  ELSE [H |-> Alloc(H, [H[ref] EXCEPT !.w = TRUE, !.m = NoMeta]),
        ref |-> NewRef(H)]

\* Python == between two objects (wrappers compare as their base type).
RECURSIVE PyEq(_, _, _)
PyEq(H, a, b) ==
  IF a = 0 \/ b = 0 THEN a = b
  ELSE IF a = b THEN TRUE
  ELSE IF H[a].k # H[b].k THEN FALSE
  ELSE CASE H[a].k = "str" -> H[a].s = H[b].s
         [] H[a].k = "int" -> H[a].n = H[b].n
         [] H[a].k = "list" ->
              /\ Len(H[a].e) = Len(H[b].e)
              /\ \A i \in 1..Len(H[a].e) : PyEq(H, H[a].e[i], H[b].e[i])
         [] OTHER ->
              /\ Len(H[a].e) = Len(H[b].e)
              /\ \A i \in 1..Len(H[a].e) :
                   \E j \in 1..Len(H[b].e) :
                     /\ PyEq(H, H[a].keys[i], H[b].keys[j])
                     /\ PyEq(H, H[a].e[i], H[b].e[j])

\* ------------------------------------------------------------------------
\* Concrete input reader (readers.py).  A reader is [string, position];
\* an optional reader is None or Some(reader).
\* ------------------------------------------------------------------------

ConcreteInputReader(string) == [string |-> string, position |-> 0]

get_pos(rd) == rd.position
set_pos(rd, pos) == [rd EXCEPT !.position = pos]
reset(rd) == set_pos(rd, 0)
is_fully_consumed(rd) == rd.position >= Len(rd.string)
get_remaining(rd) == SubSeq(rd.string, rd.position + 1, Len(rd.string))
get_consumed_string(rd, start_pos) == SubSeq(rd.string, start_pos + 1, rd.position)
is_aligned_with(rd, other) ==
  rd.position = other.position /\ rd.string = other.string

\* consume_char: ok tells whether a char was consumed (else EndOfString).
consume_char(rd) ==
  IF is_fully_consumed(rd)
  THEN [ok |-> FALSE, char |-> "", rd |-> rd]
  ELSE [ok |-> TRUE, char |-> rd.string[rd.position + 1],
        rd |-> [rd EXCEPT !.position = rd.position + 1]]

\* consume_string without the check of the end of the string: the slice
\* ends at the end of the string, the position goes on.
consume_string_unchecked(rd, length) ==
  [ok |-> TRUE,
   str |-> SubSeq(rd.string, rd.position + 1,
                  IF rd.position + length > Len(rd.string) THEN Len(rd.string)
                  ELSE rd.position + length),
   rd |-> [rd EXCEPT !.position = rd.position + length]]

consume_string(rd, length) ==
  IF rd.position + length > Len(rd.string)
  THEN [ok |-> FALSE, str |-> <<>>, rd |-> rd]
  ELSE [ok |-> TRUE,
        str |-> SubSeq(rd.string, rd.position + 1, rd.position + length),
        rd |-> [rd EXCEPT !.position = rd.position + length]]

\* ------------------------------------------------------------------------
\* Containers (containers.py).  A container is a record; its list of items
\* is the heap object container_item, _label is a reference to the label
\* item, and _alignment_mode is "none" until set_container_lens is called.
\* ------------------------------------------------------------------------

SOURCE == "SOURCE"
MODEL == "MODEL"
LABEL == "LABEL"

\* Just used to simplify sorting: the key of an item without a source
\* position.  The source has 0xFFFFFFFF; the model has the largest integer
\* of the model checker, which is as far above every position of a string
\* of the model.
LARGE_INTEGER == 2147483647

\* ListContainer.__new__ / DictContainer.__new__ via
\* ContainerFactory.create_container: an empty container for a lens of a
\* container type, None for any other type.
create_container(H, type) ==
  IF type \in {"list", "dict"}
  THEN [H |-> Alloc(H, ListObj(<<>>)),
        ct |-> Some([kind |-> type, container_item |-> NewRef(H), label |-> 0,
                     has_lens |-> FALSE, alignment_mode |-> "none"])]
  ELSE [H |-> H, ct |-> None]

\* The loop of ListContainer.__init__: every element is replaced in place
\* by enable_meta_data(element).
RECURSIVE WrapElements(_, _, _)
WrapElements(H, list, index) ==
  LET enabled(r) ==
        WrapElements([r.H EXCEPT ![list].e[index] = r.ref], list, index + 1)
  IN IF index > Len(H[list].e) THEN H
     ELSE enabled(enable_meta_data(H, H[list].e[index]))

\* The loop of DictContainer.__init__: the items of the dict, each with
\* meta data enabled and its label set to its key, collected in a new list.
RECURSIVE DictItemsAsList(_, _, _, _)
DictItemsAsList(H, dict, index, acc) ==
  LET enabled(r) ==
        DictItemsAsList([r.H EXCEPT ![r.ref].m.label = H[dict].keys[index]],
                        dict, index + 1, Append(acc, r.ref))
  IN IF index > Len(H[dict].e) THEN [H |-> H, items |-> acc]
     ELSE enabled(enable_meta_data(H, H[dict].e[index]))

\* ContainerFactory.wrap_container: a list is wrapped in place, the items
\* of a dict are wrapped as a new list; the label of the container is the
\* label of the item.  None for an item that is not a container.
wrap_container(H, item) ==
  LET of_dict(r) ==
        [H |-> Alloc(r.H, ListObj(r.items)),
         ct |-> Some([kind |-> "dict", container_item |-> NewRef(r.H),
                      label |-> H[item].m.label,
                      has_lens |-> FALSE, alignment_mode |-> "none"])]
  IN IF H[item].k = "list"
     THEN [H |-> WrapElements(H, item, 1),
           ct |-> Some([kind |-> "list", container_item |-> item,
                        label |-> H[item].m.label,
                        has_lens |-> FALSE, alignment_mode |-> "none"])]
     ELSE IF H[item].k = "dict" THEN of_dict(DictItemsAsList(H, item, 1, <<>>))
     ELSE [H |-> H, ct |-> None]

\* AbstractContainer.set_container_lens: defaults to MODEL alignment.
set_container_lens(c, lens) ==
  [c EXCEPT !.has_lens = TRUE,
            !.alignment_mode = IF lens.alignment = "none" THEN MODEL
                               ELSE lens.alignment]

get_label(c) == c.label

\* ListContainer.get_put_candidates
get_put_candidates(H, c) == H[c.container_item].e

\* is_fully_consumed as it would be with >= in place of ==.
container_always_consumed(H, c) == Len(H[c.container_item].e) >= 0

\* ListContainer.is_fully_consumed
container_is_fully_consumed(H, c) == Len(H[c.container_item].e) = 0

\* list.remove(item) as it would be if it removed the last element that
\* equals the item.
IndexToRemove_last(H, list, item) ==
  LET hits == {i \in 1..Len(H[list].e) : PyEq(H, H[list].e[i], item)}
  IN IF hits = {} THEN 0 ELSE CHOOSE i \in hits : \A j \in hits : i >= j

\* list.remove(item): the index of the first element that is the item or
\* equals it, 0 when there is none (ValueError).
IndexToRemove(H, list, item) ==
  LET hits == {i \in 1..Len(H[list].e) : PyEq(H, H[list].e[i], item)}
  IN IF hits = {} THEN 0 ELSE CHOOSE i \in hits : \A j \in hits : i <= j

RemoveAt(seq, i) == SubSeq(seq, 1, i - 1) \o SubSeq(seq, i + 1, Len(seq))

\* ListContainer.remove_item
remove_item(H, c, item) ==
  LET list == c.container_item
      at(i) == [ok |-> i # 0,
                H |-> IF i = 0 THEN H ELSE [H EXCEPT ![list].e = RemoveAt(@, i)]]
  IN at(IndexToRemove(H, list, item))

\* ListContainer.store_item / DictContainer.store_item: a dict container
\* raises LensException for an item without a label.
store_item(H, c, item) ==
  IF c.kind = "dict" /\ ~has_value(H[item].m.label)
  THEN [ok |-> FALSE, H |-> H]
  ELSE [ok |-> TRUE,
        H |-> [H EXCEPT ![c.container_item].e = Append(@, item)]]

\* DictContainer.unwrap: items_as_dict[label] = item for every item in
\* order, so that a later item replaces the value of an equal key.
RECURSIVE ItemsAsDict(_, _, _, _, _)
ItemsAsDict(H, items, index, keys, vals) ==
  IF index > Len(items) THEN [keys |-> keys, vals |-> vals]
  ELSE LET item == items[index]
           key == H[item].m.label
           hits == {j \in 1..Len(keys) : PyEq(H, keys[j], key)}
       IN IF hits = {}
          THEN ItemsAsDict(H, items, index + 1, Append(keys, key), Append(vals, item))
          ELSE ItemsAsDict(H, items, index + 1, keys,
                           [vals EXCEPT ![CHOOSE j \in hits : TRUE] = item])

\* ListContainer.unwrap / DictContainer.unwrap: the list itself, or a new
\* dict.  Returns the heap and the reference of the native value.
unwrap(H, c) ==
  LET as_dict(d) == [H |-> Alloc(H, DictObj(d.keys, d.vals)), ref |-> NewRef(H)]
  IN IF c.kind = "dict"
     THEN as_dict(ItemsAsDict(H, H[c.container_item].e, 1, <<>>, <<>>))
     ELSE [H |-> H, ref |-> c.container_item]

\* The sort key of SOURCE alignment.
get_key(H, item) ==
  IF H[item].m.start # -1 THEN H[item].m.start ELSE LARGE_INTEGER

\* sorted(candidate_items, key=get_key): a stable sort.
RECURSIVE SortedByKey(_, _)
SortedByKey(H, items) ==
  IF Len(items) = 0 THEN <<>>
  ELSE LET i == CHOOSE i \in 1..Len(items) :
                  \A j \in 1..Len(items) :
                    \/ get_key(H, items[i]) < get_key(H, items[j])
                    \/ get_key(H, items[i]) = get_key(H, items[j]) /\ i <= j
       IN <<items[i]>> \o SortedByKey(H, RemoveAt(items, i))

\* The items of a sequence that satisfy a static label.
RECURSIVE WithLabel(_, _, _)
WithLabel(H, items, label) ==
  IF Len(items) = 0 THEN <<>>
  ELSE LET rest == WithLabel(H, Tail(items), label)
           l == H[Head(items)].m.label
       IN IF has_value(l) /\ H[l].k = "str" /\ H[l].s = label
          THEN <<Head(items)>> \o rest ELSE rest

\* filter_and_sort_candidate_items as it would be if it sorted the
\* candidates by their source position in MODEL alignment too.
filter_and_sort_always(H, c, candidate_items, lens) ==
  IF lens.label # None
  THEN [ok |-> TRUE, items |-> WithLabel(H, candidate_items, lens.label[1])]
  ELSE IF c.alignment_mode = MODEL
  THEN [ok |-> TRUE,
        items |-> SortedByKey(H, candidate_items)]
  ELSE IF c.alignment_mode = SOURCE
  THEN [ok |-> TRUE, items |-> SortedByKey(H, candidate_items)]
  ELSE [ok |-> FALSE, items |-> <<>>]

\* filter_and_sort_candidate_items as it would be without the branch of
\* the static label: the candidates are chosen by the alignment mode only.
filter_and_sort_unlabelled(H, c, candidate_items, lens) ==
  IF c.alignment_mode = MODEL
  THEN [ok |-> TRUE,
        items |-> IF Len(candidate_items) > 0 THEN <<candidate_items[1]>>
                  ELSE <<>>]
  ELSE IF c.alignment_mode = SOURCE
  THEN [ok |-> TRUE, items |-> SortedByKey(H, candidate_items)]
  ELSE [ok |-> FALSE, items |-> <<>>]

\* AbstractContainer.filter_and_sort_candidate_items.  ok is FALSE for an
\* unknown alignment mode (a plain Exception).
filter_and_sort_candidate_items(H, c, candidate_items, lens) ==
  IF lens.label # None
  THEN [ok |-> TRUE, items |-> WithLabel(H, candidate_items, lens.label[1])]
  ELSE IF c.alignment_mode = MODEL
  THEN [ok |-> TRUE,
        items |-> IF Len(candidate_items) > 0 THEN <<candidate_items[1]>>
                  ELSE <<>>]
  ELSE IF c.alignment_mode = SOURCE
  THEN [ok |-> TRUE, items |-> SortedByKey(H, candidate_items)]
  ELSE [ok |-> FALSE, items |-> <<>>]

\* ------------------------------------------------------------------------
\* Rollback engine (rollback.py).  The rollbackables are an optional reader
\* and an optional container; their state is the reader position and the
\* pair (list of items, label) of the container.
\* ------------------------------------------------------------------------

\* copy.copy of a list object; "copy and copy.copy(x) or x" yields x itself
\* when the copy is empty, i.e. falsy.
CopyOrSame(H, list, copy_state) ==
  IF copy_state /\ Len(H[list].e) > 0
  THEN [H |-> Alloc(H, H[list]), ref |-> NewRef(H)]
  ELSE [H |-> H, ref |-> list]

\* ListContainer._get_state
ListContainer_get_state(H, c, copy_state) ==
  LET r == CopyOrSame(H, c.container_item, copy_state)
  IN [H |-> r.H, state |-> [list |-> r.ref, label |-> c.label]]

\* ListContainer._set_state
ListContainer_set_state(H, c, state, copy_state) ==
  LET r == CopyOrSame(H, state.list, copy_state)
  IN [H |-> r.H,
      ct |-> [c EXCEPT !.container_item = r.ref, !.label = state.label]]

NoContainerState == [list |-> 0, label |-> 0]

\* get_rollbackables_state(reader, container): None is skipped.
get_rollbackables_state(H, rd, ct, copy_state) ==
  LET r == IF ct = None THEN [H |-> H, state |-> NoContainerState]
           ELSE ListContainer_get_state(H, ct[1], copy_state)
  IN [H |-> r.H,
      state |-> [pos |-> IF rd = None THEN -1 ELSE get_pos(rd[1]),
                 ct |-> r.state]]

\* set_rollbackables_state(state, reader, container)
set_rollbackables_state(H, state, rd, ct) ==
  LET r == IF ct = None THEN [H |-> H, ct |-> None]
           ELSE LET q == ListContainer_set_state(H, ct[1], state.ct, TRUE)
                IN [H |-> q.H, ct |-> Some(q.ct)]
  IN [H |-> r.H,
      rd |-> IF rd = None THEN None ELSE Some(set_pos(rd[1], state.pos)),
      ct |-> r.ct]

\* some_state_changed as it would be if the states were compared by
\* identity (is) and not by value (==).
some_state_changed_is(H, start_state, rd, ct) ==
  LET differs(cur) ==
        ~ /\ cur.pos = start_state.pos
          /\ cur.ct.list = start_state.ct.list
          /\ PyEq(H, cur.ct.label, start_state.ct.label)
  IN differs(get_rollbackables_state(H, rd, ct, FALSE).state)

\* current_state != self.start_state in automatic_rollback.__exit__: the
\* states are compared by value.
some_state_changed(H, start_state, rd, ct) ==
  LET differs(cur) ==
        ~ /\ cur.pos = start_state.pos
          /\ PyEq(H, cur.ct.list, start_state.ct.list)
          /\ PyEq(H, cur.ct.label, start_state.ct.label)
  IN differs(get_rollbackables_state(H, rd, ct, FALSE).state)

\* ------------------------------------------------------------------------
\* State of the program
\* ------------------------------------------------------------------------

VARIABLES
  check_consumption,  \* GlobalSettings.check_consumption
  lens,               \* the lens the caller uses
  input,              \* the concrete input string of the first get
  heap,               \* the python objects
  model,              \* reference of the caller's item (0: none)
  pc,                 \* position of the caller
  got,                \* outcome of the first get
  edit,               \* what the caller did to the item since the get
  call,               \* arguments of the put: concrete input and label
  before,             \* heap and item just before the put
  res,                \* outcome of the put
  res2,               \* outcome of a second, identical put
  back,               \* outcome of the get of the output of the put
  concrete_reader,    \* a reader that is used without a lens (or None)
  cloned_reader,      \* a second reader, to compare the first one with
  o_3,                \* a container that is used without a lens (or None)
  rollback_context,   \* the automatic_rollback scope around the two targets
  item_lens,          \* the lens of a direct call of a container or of _put
  item_reader,        \* the reader of that call, as it was before the call
  container           \* the container of that call, before and after the call,
                      \* and the candidate that the call has put (0: none)

vars == <<check_consumption, lens, input, heap, model, pc, got, edit, call,
          before, res, res2, back, concrete_reader,
          cloned_reader, o_3, rollback_context,
          item_lens, item_reader, container>>

\* The variables of a direct call of consume_and_put_item or of _put.
container_vars == <<item_lens, item_reader, container>>

\* The variables of the calls of a lens, and those of the readers and scopes
\* that are used without a lens; neither kind of step makes a direct call.
lens_vars == <<check_consumption, lens, input, model, pc, got, edit, call,
               before, res, res2, back, container_vars>>
scope_vars == <<concrete_reader, cloned_reader, o_3, rollback_context,
                container_vars>>

\* No scope was entered yet: nothing saved, nothing seen of the targets.
NoTargets == [pos |-> -1, items |-> <<>>]
NoScope ==
  [state |-> "out", saved |-> None, start |-> None, check |-> FALSE,
   reused |-> FALSE, changed |-> FALSE, type |-> "none", raised |-> "none",
   entry |-> NoTargets, last |-> NoTargets]

\* ------------------------------------------------------------------------
\* Results of get and put.  st is "ok", "LensException" (a rollback-safe
\* exception, exc names its class), "Fatal" (any other exception) or
\* "Diverges" (a loop that does not end).  item is the item returned by
\* a GET, out the string returned by a PUT; rd, ct and H are the reader,
\* the current container and the heap when the call ended; ict is the
\* container that Lens.put made of the item it was given.
\* ------------------------------------------------------------------------

Ok(out, item, rd, ct, H) ==
  [st |-> "ok", exc |-> "", out |-> out, item |-> item, rd |-> rd, ct |-> ct,
   H |-> H, ict |-> None]

Raise(exc, rd, ct, H) ==
  [st |-> "LensException", exc |-> exc, out |-> <<>>, item |-> 0, rd |-> rd,
   ct |-> ct, H |-> H, ict |-> None]

Fatal(exc, rd, ct, H) ==
  [st |-> "Fatal", exc |-> exc, out |-> <<>>, item |-> 0, rd |-> rd,
   ct |-> ct, H |-> H, ict |-> None]

Diverges(rd, ct, H) ==
  [st |-> "Diverges", exc |-> "", out |-> <<>>, item |-> 0, rd |-> rd,
   ct |-> ct, H |-> H, ict |-> None]

\* ------------------------------------------------------------------------
\* Lenses (base_lenses.py).  A lens is a record of its class k, its type
\* ("none" for a non-STORE lens), its default, its options and the
\* attributes of its class.
\* ------------------------------------------------------------------------

\* Lens.__init__ with no argument given.
Lens == [k |-> "Lens", type |-> "none", default |-> None,
         label |-> None, is_label |-> FALSE, auto_list |-> FALSE,
         combine_chars |-> FALSE, alignment |-> "none",
         valid_chars |-> {}, negate |-> FALSE, literal_string |-> <<>>,
         mode |-> "none", min_count |-> 1, max_count |-> -1,
         name |-> "none", recursion_limit |-> 0, depth |-> 0,
         include_lens |-> FALSE,
         lenses |-> <<>>]

\* The argument shortcut of Lens.__init__: a lens that is a label or has a
\* label is a STORE lens of type str.
Lens_init(l) ==
  IF l.type = "none" /\ (l.is_label \/ l.label # None)
  THEN [l EXCEPT !.type = "str"] ELSE l

\* Lens.__init__ raises when both a type and a default are given.
Lens_init_fails(l) == l.type # "none" /\ l.default # None

AnyOf(valid_chars, type, default) ==
  Lens_init([Lens EXCEPT !.k = "AnyOf", !.valid_chars = valid_chars,
                         !.type = type, !.default = default])

\* Literal.__init__: the literal is the default of a non-STORE Literal.
Literal(literal_string, type) ==
  LET l == Lens_init([Lens EXCEPT !.k = "Literal", !.type = type,
                                  !.literal_string = literal_string])
  IN IF l.type = "none" THEN [l EXCEPT !.default = Some(literal_string)] ELSE l

\* Empty.__init__: the default is always the empty string.
Empty(mode, type) ==
  [Lens_init([Lens EXCEPT !.k = "Empty", !.type = type, !.mode = mode])
     EXCEPT !.default = Some(<<>>)]

\* And.__init__ / Or.__init__: sub-lenses of the very same class are
\* flattened into the new lens.
RECURSIVE Flatten(_, _)
Flatten(k, lenses) ==
  IF Len(lenses) = 0 THEN <<>>
  ELSE (IF Head(lenses).k = k THEN Head(lenses).lenses ELSE <<Head(lenses)>>)
         \o Flatten(k, Tail(lenses))

And(lenses, type) ==
  Lens_init([Lens EXCEPT !.k = "And", !.type = type,
                         !.lenses = Flatten("And", lenses)])

Or(lenses, type) ==
  Lens_init([Lens EXCEPT !.k = "Or", !.type = type,
                         !.lenses = Flatten("Or", lenses)])

Repeat(sublens, min_count, max_count, type) ==
  Lens_init([Lens EXCEPT !.k = "Repeat", !.type = type,
                         !.min_count = min_count, !.max_count = max_count,
                         !.lenses = <<sublens>>])

\* Repeat.__init__ asserts its bounds.
Repeat_init_fails(min_count, max_count) ==
  \/ ~(min_count >= 0)
  \/ max_count # -1 /\ ~(max_count > min_count)

Group(sublens, type) ==
  Lens_init([Lens EXCEPT !.k = "Group", !.type = type, !.lenses = <<sublens>>])

\* Word.__init__: max_count and max_count - 1 or None, the max of the
\* Repeat of the body, None being -1.
WordMax(max_count) ==
  IF max_count = -1 \/ max_count = 0 \/ max_count - 1 = 0 THEN -1
  ELSE max_count - 1

\* Word.__init__, a subclass of And that And.__init__ does not flatten: a
\* char of init_chars (of body_chars when there are none) and a Repeat of
\* chars of body_chars.  A Word with a type is a list of chars that are
\* combined.
Word(body_chars, init_chars, min_count, max_count, type) ==
  LET any_of_type == IF type # "none" THEN "str" ELSE "none"
      left_lens == AnyOf(IF init_chars = {} THEN body_chars ELSE init_chars,
                         any_of_type, None)
      right_lens == Repeat(AnyOf(body_chars, any_of_type, None),
                           min_count - 1, WordMax(max_count), "none")
  IN Lens_init([Lens EXCEPT !.k = "Word",
                            !.type = IF type # "none" THEN "list" ELSE "none",
                            !.combine_chars = TRUE,
                            !.lenses = <<left_lens, right_lens>>])

\* Word.__init__ raises: the assertion on min_count, the assertion that
\* the type is str, or the assertions of Repeat.__init__ on the Repeat of
\* the body.
Word_init_fails(min_count, max_count, type) ==
  \/ ~(min_count > 0)
  \/ type \notin {"none", "str"}
  \/ Repeat_init_fails(min_count - 1, WordMax(max_count))

\* Forward.__init__.  The lens that is bound later refers to the Forward
\* lens itself; the model keeps the name of the grammar in the lens and
\* in depth the number of Forward calls that enclose this occurrence of
\* the lens, which stands for the depth of the python stack.
Forward(name, recursion_limit) ==
  Lens_init([Lens EXCEPT !.k = "Forward", !.name = name,
                         !.recursion_limit = recursion_limit])

\* Until.__init__
Until(sublens, include_lens, type, default) ==
  Lens_init([Lens EXCEPT !.k = "Until", !.type = type, !.default = default,
                         !.include_lens = include_lens, !.lenses = <<sublens>>])

has_type(l) == l.type # "none"

\* isinstance(item, self.type)
isinstance(H, item, type) == H[item].k = type

\* self.type(item): the conversions int(str) and str(int).  ok is FALSE
\* where python raises (ValueError, TypeError).
Cast(H, item, type) ==
  LET o == H[item]
  IN IF type = "int" /\ o.k = "str" /\ IsIntString(o.s)
     THEN [ok |-> TRUE, H |-> Alloc(H, IntObj(StrToInt(o.s))), ref |-> NewRef(H)]
     ELSE IF type = "str" /\ o.k = "int"
     THEN [ok |-> TRUE, H |-> Alloc(H, StrObj(IntToStr(o.n))), ref |-> NewRef(H)]
     ELSE [ok |-> FALSE, H |-> H, ref |-> 0]

\* str(item) of a str or an int item.
StrOf(o) == IF o.k = "int" THEN IntToStr(o.n) ELSE o.s

\* "".join(item) for a list of strings.
RECURSIVE Join(_, _)
Join(H, elems) ==
  IF Len(elems) = 0 THEN <<>> ELSE H[Head(elems)].s \o Join(H, Tail(elems))

\* Lens._process_outgoing_item: auto_list, combine_chars, is_label and
\* static label of an item on its way out of a GET.
process_outgoing_item(l, H, item) ==
  LET a == IF l.auto_list /\ has_type(l) /\ l.type = "list" /\ Len(H[item].e) = 1
           THEN LET elem == H[item].e[1]
                    list_meta_data == [H[item].m EXCEPT !.singleton = Some(H[elem].m)]
                IN [ok |-> TRUE, ref |-> elem,
                    H |-> [H EXCEPT ![elem].m = list_meta_data,
                                    ![item].m = list_meta_data]]
           ELSE IF l.combine_chars /\ has_type(l) /\ l.type = "list"
           THEN IF \A i \in 1..Len(H[item].e) : H[H[item].e[i]].k = "str"
                THEN [ok |-> TRUE, ref |-> NewRef(H),
                      H |-> Alloc(H, [StrObj(Join(H, H[item].e))
                                        EXCEPT !.w = TRUE, !.m = H[item].m])]
                ELSE [ok |-> FALSE, ref |-> 0, H |-> H]
           ELSE [ok |-> TRUE, ref |-> item, H |-> H]
  IN IF ~a.ok THEN a
     ELSE IF l.is_label
     THEN [a EXCEPT !.H = [a.H EXCEPT ![a.ref].m.is_label = TRUE]]
     ELSE IF l.label # None
     THEN [a EXCEPT !.H = [Alloc(a.H, StrObj(l.label[1]))
                             EXCEPT ![a.ref].m.label = NewRef(a.H)]]
     ELSE a

\* AbstractContainer.set_label(label) without overwrite: the label must be
\* a string, and a container has one label at most.
set_label_fails(H, c, label) ==
  \/ H[label].k # "str"
  \/ H[label].s # <<>> /\ has_value(c.label) /\ H[c.label].s # <<>>

RECURSIVE Call(_, _)


\* Lens.get.  top tells that concrete_input is a str, not a reader.
Lens_get(l, rd, ct, H, top) ==
  LET concrete_start_position == get_pos(rd)
      unconsumed(reader) ==
        top /\ check_consumption /\ ~is_fully_consumed(reader)
      \* _process_outgoing_item, and the item is returned
      processed(r, outer, p) ==
        IF ~p.ok THEN Fatal("TypeError", r.rd, outer, p.H)
        ELSE Ok(<<>>, p.ref, r.rd, outer, p.H)
      \* the meta data of the item, and the check of the consumption
      enabled(r, own, outer, e) ==
        LET reader == r.rd[1]
            H1 == [e.H EXCEPT
                     ![e.ref].m.start = concrete_start_position,
                     ![e.ref].m.end = get_pos(reader),
                     ![e.ref].m.src = Some(reader.string),
                     ![e.ref].m.label =
                        IF own THEN get_label(r.ct[1]) ELSE @]
        IN IF unconsumed(reader)
           THEN Raise("NotFullyConsumed", r.rd, outer, H1)
           ELSE processed(r, outer, process_outgoing_item(l, H1, e.ref))
      \* the item cast to the type of the lens
      cast(r, own, outer, c) ==
        IF ~c.ok THEN Fatal("ValueError", r.rd, outer, c.H)
        ELSE enabled(r, own, outer, enable_meta_data(c.H, c.ref))
      \* the item of the lens: the unwrapped container, or the item of _get
      unwrapped(r, own, outer, u) ==
        IF ~has_type(l)
        THEN IF unconsumed(r.rd[1])
             THEN Raise("NotFullyConsumed", r.rd, outer, u.H)
             ELSE Ok(<<>>, u.ref, r.rd, outer, u.H)
        ELSE IF ~has_value(u.ref) THEN Fatal("AssertionError", r.rd, outer, u.H)
        ELSE cast(r, own, outer,
                  IF isinstance(u.H, u.ref, l.type)
                  THEN [ok |-> TRUE, H |-> u.H, ref |-> u.ref]
                  ELSE Cast(u.H, u.ref, l.type))
      \* after self._get(concrete_input_reader, current_container)
      after_get(r, own) ==
        IF r.st # "ok" THEN [r EXCEPT !.ct = IF own THEN ct ELSE @]
        ELSE IF own /\ has_value(r.item)
        THEN Fatal("AssertionError", Some(r.rd[1]), ct, r.H)
        ELSE unwrapped(r, own, IF own THEN ct ELSE r.ct,
                       IF own THEN unwrap(r.H, r.ct[1])
                       ELSE [H |-> r.H, ref |-> r.item])
      \* a lens of a container type works on a container of its own
      created(lc) == after_get(Call("Proper_get", <<l, rd, lc.ct, lc.H>>), TRUE)
  IN IF create_container(H, l.type).ct # None
     THEN created(create_container(H, l.type))
     ELSE after_get(Call("Proper_get", <<l, rd, ct, H>>), FALSE)

\* AbstractContainer.get_and_store_item
get_and_store_item(l, rd, ct, H) ==
  LET stored(r, s) ==
        IF s.ok THEN Ok(<<>>, 0, r.rd, r.ct, s.H)
        ELSE Raise("LensException", r.rd, r.ct, r.H)
      after_get(r) ==
        IF r.st # "ok" \/ ~has_value(r.item) THEN [r EXCEPT !.item = 0]
        ELSE IF r.H[r.item].m.is_label
        THEN IF set_label_fails(r.H, r.ct[1], r.item)
             THEN Fatal("Exception", r.rd, r.ct, r.H)
             ELSE Ok(<<>>, 0, r.rd, Some([r.ct[1] EXCEPT !.label = r.item]), r.H)
        ELSE stored(r, store_item(r.H, r.ct[1], r.item))
  IN after_get(Call("Lens_get", <<l, rd, ct, H, FALSE>>))

\* Lens.container_get
container_get(l, rd, ct, H) ==
  LET after_get(r) ==
        IF r.st = "ok" /\ has_value(r.item)
        THEN Fatal("AssertionError", r.rd, r.ct, r.H)
        ELSE r
  IN IF ct # None THEN get_and_store_item(l, rd, ct, H)
     ELSE after_get(Call("Lens_get", <<l, rd, None, H, FALSE>>))

\* And._get: the loop over the sub-lenses, from index i.
And_get(l, i, rd, ct, H) ==
  LET after_get(r) ==
        IF r.st # "ok" THEN r
        ELSE Call("And_get", <<l, i + 1, r.rd[1], r.ct, r.H>>)
  IN IF i > Len(l.lenses) THEN Ok(<<>>, 0, Some(rd), ct, H)
     ELSE after_get(container_get(l.lenses[i], rd, ct, H))

\* Or._get: the loop over the sub-lenses, from index i, each tried within
\* automatic_rollback(reader, container).
Or_get(l, i, rd, ct, H) ==
  LET rolled_back(b) == Call("Or_get", <<l, i + 1, b.rd[1], b.ct, b.H>>)
      after_get(s, r) ==
        IF r.st # "LensException" THEN r
        ELSE rolled_back(set_rollbackables_state(r.H, s.state, r.rd, r.ct))
  IN IF i > Len(l.lenses) THEN Raise("LensException", Some(rd), ct, H)
     ELSE after_get(get_rollbackables_state(H, Some(rd), ct, TRUE),
                    Call("Lens_get",
                         <<l.lenses[i], rd, ct,
                           get_rollbackables_state(H, Some(rd), ct, TRUE).H, FALSE>>))

\* Repeat._get as it would be if it compared no_got with max_count before
\* it counted the iteration.
Repeat_get_over(l, no_got, iter, rd, ct, H) ==
  LET done(rd1, ct1, H1) ==
        IF no_got < l.min_count THEN Raise("TooFewIterations", Some(rd1), ct1, H1)
        ELSE Ok(<<>>, 0, Some(rd1), ct1, H1)
      rolled_back(b) == done(b.rd[1], b.ct, b.H)
      after_get(s, r) ==
        IF r.st = "LensException"
        THEN rolled_back(set_rollbackables_state(r.H, s.state, r.rd, r.ct))
        ELSE IF r.st # "ok" THEN r
        ELSE IF ~some_state_changed(r.H, s.state, r.rd, r.ct)
        THEN done(r.rd[1], r.ct, r.H)
        ELSE IF l.max_count # -1 /\ no_got = l.max_count
        THEN IF no_got + 1 < l.min_count
             THEN Raise("TooFewIterations", r.rd, r.ct, r.H)
             ELSE Ok(<<>>, 0, r.rd, r.ct, r.H)
        ELSE Call("Repeat_get", <<l, no_got + 1, iter + 1, r.rd[1], r.ct, r.H>>)
      entered(s) ==
        after_get(s, Call("container_get", <<l.lenses[1], rd, ct, s.H>>))
  IN IF iter > MaxIter THEN Diverges(Some(rd), ct, H)
     ELSE entered(get_rollbackables_state(H, Some(rd), ct, TRUE))

\* Repeat._get: the while loop, no_got counting the successful GETs.
Repeat_get(l, no_got, iter, rd, ct, H) ==
  LET done(rd1, ct1, H1) ==
        IF no_got < l.min_count THEN Raise("TooFewIterations", Some(rd1), ct1, H1)
        ELSE Ok(<<>>, 0, Some(rd1), ct1, H1)
      rolled_back(b) == done(b.rd[1], b.ct, b.H)
      after_get(s, r) ==
        IF r.st = "LensException"
        THEN rolled_back(set_rollbackables_state(r.H, s.state, r.rd, r.ct))
        ELSE IF r.st # "ok" THEN r
        ELSE IF ~some_state_changed(r.H, s.state, r.rd, r.ct)
        THEN done(r.rd[1], r.ct, r.H)
        ELSE IF l.max_count # -1 /\ no_got + 1 = l.max_count
        THEN IF no_got + 1 < l.min_count
             THEN Raise("TooFewIterations", r.rd, r.ct, r.H)
             ELSE Ok(<<>>, 0, r.rd, r.ct, r.H)
        ELSE Call("Repeat_get", <<l, no_got + 1, iter + 1, r.rd[1], r.ct, r.H>>)
      entered(s) ==
        after_get(s, Call("container_get", <<l.lenses[1], rd, ct, s.H>>))
  IN IF iter > MaxIter THEN Diverges(Some(rd), ct, H)
     ELSE entered(get_rollbackables_state(H, Some(rd), ct, TRUE))

\* AnyOf._is_valid_char
is_valid_char(l, char) ==
  IF l.negate THEN char \notin l.valid_chars ELSE char \in l.valid_chars

\* AnyOf._get.  The item is a new plain str object.
AnyOf_get(l, rd, ct, H) ==
  LET c == consume_char(rd)
  IN IF ~c.ok \/ ~is_valid_char(l, c.char)
     THEN Raise("LensException", Some(c.rd), ct, H)
     ELSE IF has_type(l)
     THEN Ok(<<>>, NewRef(H), Some(c.rd), ct, Alloc(H, StrObj(<<c.char>>)))
     ELSE Ok(<<>>, 0, Some(c.rd), ct, H)

\* Literal._get
Literal_get(l, rd, ct, H) ==
  LET c == consume_string(rd, Len(l.literal_string))
  IN IF ~c.ok \/ c.str # l.literal_string
     THEN Raise("LensException", Some(c.rd), ct, H)
     ELSE IF has_type(l)
     THEN Ok(<<>>, NewRef(H), Some(c.rd), ct, Alloc(H, StrObj(c.str)))
     ELSE Ok(<<>>, 0, Some(c.rd), ct, H)

\* Empty._get
Empty_get(l, rd, ct, H) ==
  IF \/ l.mode = "START_OF_TEXT" /\ get_pos(rd) # 0
     \/ l.mode = "END_OF_TEXT" /\ ~is_fully_consumed(rd)
  THEN Raise("LensException", Some(rd), ct, H)
  ELSE IF has_type(l)
  THEN Ok(<<>>, NewRef(H), Some(rd), ct, Alloc(H, StrObj(<<>>)))
  ELSE Ok(<<>>, 0, Some(rd), ct, H)

\* Group._get
Group_get(l, rd, ct, H) == Call("Lens_get", <<l.lenses[1], rd, ct, H, FALSE>>)

\* Forward.bind_lens: self.lenses[0], for the grammars
\*   R << "1" + (AnyOf(alphas, type=str) | R) + "1"
\*   R << "1" + (R | AnyOf(alphas, type=str)) + "1"
\*   S << AnyOf(nums, type=int) + (S | Empty())
\* of test_forward, the character 1 standing for the brackets, and for the
\* lenses without recursion
\*   N << AnyOf(nums, type=int)
\*   AN << AnyOf(alphas, type=str) + AnyOf(nums, type=int)
BoundLens(l) ==
  LET R == [l EXCEPT !.depth = l.depth + 1]
      char == AnyOf(alphas, "str", None)
      bracket == Literal(<<"1">>, "none")
  IN CASE l.name = "AnyOf|R" ->
            And(<<bracket, Or(<<char, R>>, "none"), bracket>>, "none")
       [] l.name = "R|AnyOf" ->
            And(<<bracket, Or(<<R, char>>, "none"), bracket>>, "none")
       [] l.name = "N" -> AnyOf(nums, "int", None)
       [] l.name = "AN" -> And(<<char, AnyOf(nums, "int", None)>>, "none")
       [] OTHER ->
            And(<<AnyOf(nums, "int", None),
                  Or(<<R, Empty("none", "none")>>, "none")>>, "none")

\* Forward._get.  Python raises RecursionError, a RuntimeError, for the
\* call that exceeds the recursion limit: here, the call of a Forward lens
\* at a depth that is not below the limit.
Forward_get(l, rd, ct, H) ==
  IF l.depth >= getrecursionlimit(H) THEN Fatal("RuntimeError", Some(rd), ct, H)
  ELSE Call("Proper_get", <<BoundLens(l), rd, ct, H>>)

\* Forward._put as it would be without the finally clause: the limit is
\* set back when the bound lens returns.
Forward_put_return(l, item, rd, ct, H) ==
  LET original_limit == getrecursionlimit(H)
      after_put(r) ==
        IF r.st = "Fatal" /\ r.exc = "RuntimeError"
        THEN Fatal("InfiniteRecursion", r.rd, r.ct, r.H)
        ELSE IF r.st = "ok"
        THEN [r EXCEPT !.H = setrecursionlimit(r.H, original_limit)]
        ELSE r
  IN IF l.depth >= original_limit THEN Fatal("RuntimeError", rd, ct, H)
     ELSE after_put(Call("Proper_put",
            <<BoundLens(l), item, rd, ct,
              IF l.recursion_limit # 0
              THEN setrecursionlimit(H, l.recursion_limit) ELSE H>>))

\* Forward._put as it would be if InfiniteRecursionException were a
\* LensException.
Forward_put_lens(l, item, rd, ct, H) ==
  LET original_limit == getrecursionlimit(H)
      \* except RuntimeError, and finally
      after_put(r) ==
        IF r.st = "Fatal" /\ r.exc = "RuntimeError"
        THEN Raise("InfiniteRecursion", r.rd, r.ct,
                   setrecursionlimit(r.H, original_limit))
        ELSE [r EXCEPT !.H = setrecursionlimit(r.H, original_limit)]
  IN IF l.depth >= original_limit THEN Fatal("RuntimeError", rd, ct, H)
     ELSE after_put(Call("Proper_put",
            <<BoundLens(l), item, rd, ct,
              IF l.recursion_limit # 0
              THEN setrecursionlimit(H, l.recursion_limit) ELSE H>>))

\* Forward._put, with the recursion limit of Forward_get.
Forward_put(l, item, rd, ct, H) ==
  LET original_limit == getrecursionlimit(H)
      \* except RuntimeError, and finally
      after_put(r) ==
        IF r.st = "Fatal" /\ r.exc = "RuntimeError"
        THEN Fatal("InfiniteRecursion", r.rd, r.ct,
                   setrecursionlimit(r.H, original_limit))
        ELSE [r EXCEPT !.H = setrecursionlimit(r.H, original_limit)]
  IN IF l.depth >= original_limit THEN Fatal("RuntimeError", rd, ct, H)
     ELSE after_put(Call("Proper_put",
            <<BoundLens(l), item, rd, ct,
              IF l.recursion_limit # 0
              THEN setrecursionlimit(H, l.recursion_limit) ELSE H>>))

\* Until._get as it would be without the rollback of include_lens=False:
\* the text of the stopping lens is always consumed.
Until_loop_include(l, initial_position, rd, ct, H) ==
  LET finish(reader, H1) ==
        IF get_consumed_string(reader, initial_position) = <<>>
        THEN Raise("LensException", Some(reader), ct, H1)
        ELSE IF has_type(l)
        THEN Ok(<<>>, NewRef(H1), Some(reader), ct,
                Alloc(H1, StrObj(get_consumed_string(reader, initial_position))))
        ELSE Ok(<<>>, 0, Some(reader), ct, H1)
      advance(c, H1) ==
        IF c.ok THEN Call("Until_loop", <<l, initial_position, c.rd, ct, H1>>)
        ELSE finish(rd, H1)
      stopped(r) ==
        IF r.st = "ok"
        THEN finish(r.rd[1], r.H)
        ELSE IF r.st = "LensException" THEN advance(consume_char(rd), r.H)
        ELSE [r EXCEPT !.ct = ct]
  IN stopped(Call("Lens_get", <<l.lenses[1], rd, None, H, FALSE>>))

\* Until._get: the loop that consumes characters until the stopping lens
\* matches or the input ends, and what follows the loop.  The reader rd is
\* the one of start_state.
Until_loop(l, initial_position, rd, ct, H) ==
  LET finish(reader, H1) ==
        IF get_consumed_string(reader, initial_position) = <<>>
        THEN Raise("LensException", Some(reader), ct, H1)
        ELSE IF has_type(l)
        THEN Ok(<<>>, NewRef(H1), Some(reader), ct,
                Alloc(H1, StrObj(get_consumed_string(reader, initial_position))))
        ELSE Ok(<<>>, 0, Some(reader), ct, H1)
      advance(c, H1) ==
        IF c.ok THEN Call("Until_loop", <<l, initial_position, c.rd, ct, H1>>)
        ELSE finish(rd, H1)
      stopped(r) ==
        IF r.st = "ok"
        THEN finish(IF l.include_lens THEN r.rd[1] ELSE rd, r.H)
        ELSE IF r.st = "LensException" THEN advance(consume_char(rd), r.H)
        ELSE [r EXCEPT !.ct = ct]
  IN stopped(Call("Lens_get", <<l.lenses[1], rd, None, H, FALSE>>))

\* Until._get
Until_get(l, rd, ct, H) == Call("Until_loop", <<l, get_pos(rd), rd, ct, H>>)

\* Until._put as it would be with the test
\* not (isinstance(item, str) and len(item) > 0).
Until_put_strict(l, item, rd, ct, H) ==
  LET consumed(g) ==
        IF g.st # "ok" THEN g
        ELSE Ok(get_consumed_string(g.rd[1], get_pos(rd[1])), 0, g.rd, ct, g.H)
      after_get(g) ==
        IF g.st # "ok" THEN [g EXCEPT !.ct = ct]
        ELSE Ok(g.H[item].s, 0, g.rd, ct, g.H)
  IN IF has_type(l)
     THEN IF ~has_value(item) \/ H[item].k = "int"
          THEN Fatal("TypeError", rd, ct, H)
          ELSE IF ~(H[item].k = "str" /\ Len(H[item].s) > 0)
          THEN Fatal("Exception", rd, ct, H)
          ELSE after_get(IF rd # None
                         THEN Call("Lens_get", <<l, rd[1], None, H, FALSE>>)
                         ELSE Ok(<<>>, 0, rd, None, H))
     ELSE IF has_value(item) THEN Raise("LensException", rd, ct, H)
     ELSE IF rd # None THEN consumed(Call("Until_get", <<l, rd[1], None, H>>))
     ELSE Raise("NoDefault", rd, ct, H)

\* Until._put.  The output of a STORE lens is the item; a non-STORE lens
\* puts what its _get consumes (force_return).
Until_put(l, item, rd, ct, H) ==
  LET consumed(g) ==
        IF g.st # "ok" THEN g
        ELSE Ok(get_consumed_string(g.rd[1], get_pos(rd[1])), 0, g.rd, ct, g.H)
      after_get(g) ==
        IF g.st # "ok" THEN [g EXCEPT !.ct = ct]
        ELSE Ok(IF H[item].k = "str" THEN g.H[item].s ELSE <<>>, 0, g.rd, ct, g.H)
  IN IF has_type(l)
     THEN IF ~has_value(item) \/ H[item].k = "int"
          THEN Fatal("TypeError", rd, ct, H)
          ELSE IF H[item].k # "str" /\ Len(H[item].e) > 0
          THEN Fatal("Exception", rd, ct, H)
          ELSE after_get(IF rd # None
                         THEN Call("Lens_get", <<l, rd[1], None, H, FALSE>>)
                         ELSE Ok(<<>>, 0, rd, None, H))
     ELSE IF has_value(item) THEN Raise("LensException", rd, ct, H)
     ELSE IF rd # None THEN consumed(Call("Until_get", <<l, rd[1], None, H>>))
     ELSE Raise("NoDefault", rd, ct, H)

\* _get of the class of the lens.
Proper_get(l, rd, ct, H) ==
  CASE l.k = "AnyOf" -> AnyOf_get(l, rd, ct, H)
    [] l.k = "Literal" -> Literal_get(l, rd, ct, H)
    [] l.k = "Empty" -> Empty_get(l, rd, ct, H)
    [] l.k \in {"And", "Word"} -> And_get(l, 1, rd, ct, H)
    [] l.k = "Or" -> Or_get(l, 1, rd, ct, H)
    [] l.k = "Repeat" -> Repeat_get(l, 0, 1, rd, ct, H)
    [] l.k = "Group" -> Group_get(l, rd, ct, H)
    [] l.k = "Forward" -> Forward_get(l, rd, ct, H)
    [] l.k = "Until" -> Until_get(l, rd, ct, H)
    [] OTHER -> Fatal("NotImplementedError", Some(rd), ct, H)

\* list(item) for a str item: a list of new plain one-character strings.
RECURSIVE CharsAsList(_, _, _)
CharsAsList(H, str, acc) ==
  IF Len(str) = 0 THEN [H |-> H, elems |-> acc]
  ELSE CharsAsList(Alloc(H, StrObj(<<Head(str)>>)), Tail(str),
                   Append(acc, NewRef(H)))

\* Lens._process_incoming_item: the reverse of auto_list and combine_chars
\* for an item on its way into a PUT.
process_incoming_item(l, H, item) ==
  IF l.auto_list /\ l.type = "list" /\ H[item].k # "list"
  THEN LET singleton_meta_data == H[item].m.singleton
           list_meta_data == [H[item].m EXCEPT !.singleton = None]
           H1 == Alloc(H, [ListObj(<<item>>) EXCEPT !.w = TRUE, !.m = list_meta_data])
       IN [ref |-> NewRef(H),
           H |-> [H1 EXCEPT ![item].m = IF singleton_meta_data # None
                                        THEN singleton_meta_data[1]
                                        ELSE list_meta_data]]
  ELSE IF H[item].m.singleton # None
  THEN [ref |-> item, H |-> [H EXCEPT ![item].m = H[item].m.singleton[1]]]
  ELSE IF H[item].k = "str" /\ l.combine_chars /\ l.type = "list"
  THEN LET c == CharsAsList(H, H[item].s, <<>>)
       IN [ref |-> NewRef(c.H),
           H |-> Alloc(c.H, [ListObj(c.elems) EXCEPT !.w = TRUE, !.m = H[item].m])]
  ELSE [ref |-> item, H |-> H]


\* Lens.get_and_discard
get_and_discard(l, rd, ct, H) ==
  LET restored(r, q) == Ok(<<>>, 0, r.rd, Some(q.ct), q.H)
      after_get(s, r) ==
        IF r.st # "ok" THEN r
        ELSE IF ct = None THEN Ok(<<>>, 0, r.rd, None, r.H)
        ELSE restored(r, ListContainer_set_state(r.H, r.ct[1], s.state, TRUE))
      saved(s) == after_get(s, Call("Lens_get", <<l, rd, ct, s.H, FALSE>>))
  IN saved(IF ct # None THEN ListContainer_get_state(H, ct[1], TRUE)
           ELSE [H |-> H, state |-> NoContainerState])

\* Lens.put as it would be if the default of a lens without a type were
\* left to the _put of its class.
Lens_put_proper(l, item, rd, ct, H, top, label) ==
  LET after_put(r) ==
        IF r.st = "ok" /\ top /\ rd # None /\ check_consumption
           /\ ~is_fully_consumed(r.rd[1])
        THEN [Raise("NotFullyConsumed", r.rd, r.ct, r.H) EXCEPT !.ict = r.ict]
        ELSE r
      \* the put itself; the check of the consumption follows it in the
      \* outermost call of a put with a concrete_input
      this_put ==
        CASE ~has_type(l) -> Call("Proper_put", <<l, item, rd, ct, H>>)
          [] has_value(item) -> Call("Item_put", <<l, item, rd, H, label>>)
          [] ct # None -> Call("consume_and_put_item", <<ct[1], l, rd, H>>)
          [] OTHER -> Raise("LensException", rd, ct, H)
  IN IF has_value(item) /\ ct # None THEN Fatal("AssertionError", rd, ct, H)
     ELSE IF top /\ rd # None THEN after_put(this_put)
     ELSE this_put

\* Lens.put.  item is a reference or 0, rd an optional reader, ct an
\* optional container, label an optional string; top tells that
\* concrete_input is a str, not a reader.
Lens_put(l, item, rd, ct, H, top, label) ==
  LET after_put(r) ==
        IF r.st = "ok" /\ top /\ rd # None /\ check_consumption
           /\ ~is_fully_consumed(r.rd[1])
        THEN [Raise("NotFullyConsumed", r.rd, r.ct, r.H) EXCEPT !.ict = r.ict]
        ELSE r
      \* the put itself; the check of the consumption follows it in the
      \* outermost call of a put with a concrete_input
      this_put ==
        CASE ~has_type(l) /\ rd = None /\ l.default # None ->
               Ok(l.default[1], 0, rd, ct, H)
          [] ~has_type(l) -> Call("Proper_put", <<l, item, rd, ct, H>>)
          [] has_value(item) -> Call("Item_put", <<l, item, rd, H, label>>)
          [] ct # None -> Call("consume_and_put_item", <<ct[1], l, rd, H>>)
          [] OTHER -> Raise("LensException", rd, ct, H)
  IN IF has_value(item) /\ ct # None THEN Fatal("AssertionError", rd, ct, H)
     ELSE IF top /\ rd # None THEN after_put(this_put)
     ELSE this_put

\* The branch of Lens.put for a STORE lens that is passed an item.
Item_put(l, item, rd, H, label) ==
  LET \* finally: the meta data of the original item is put back
      restored(e, aligned, g, r) ==
        [r EXCEPT !.H = [r.H EXCEPT ![e.ref].m = e.H[e.ref].m],
                  !.rd = IF aligned THEN r.rd ELSE g.rd,
                  !.ct = None, !.ict = r.ct, !.item = 0]
      \* try: after self._put, the container of the item must be empty
      after_put(e, aligned, g, is_container, r) ==
        restored(e, aligned, g,
                 IF /\ r.st = "ok" /\ is_container /\ check_consumption
                    /\ ~container_is_fully_consumed(r.H, r.ct[1])
                 THEN Raise("NotFullyConsumed", r.rd, r.ct, r.H)
                 ELSE r)
      \* the item as a container, or as a string
      wrapped(e, p, aligned, reader, g, w) ==
        IF w.ct # None
        THEN after_put(e, aligned, g, TRUE,
               Call("Proper_put", <<l, 0, reader,
                                    Some(set_container_lens(w.ct[1], l)), w.H>>))
        ELSE after_put(e, aligned, g, FALSE,
               Call("Proper_put", <<l, NewRef(w.H), reader, None,
                                    Alloc(w.H, StrObj(StrOf(w.H[p.ref])))>>))
      \* after the input of the outer reader was consumed and discarded
      discarded(e, p, aligned, reader, g) ==
        IF g.st # "ok" THEN g
        ELSE wrapped(e, p, aligned, reader, g, wrap_container(g.H, p.ref))
      \* the type check, and the choice of the input reader
      incoming(e, p) ==
        IF ~isinstance(p.H, p.ref, l.type) THEN Raise("LensException", rd, None, p.H)
        ELSE
          LET m == p.H[p.ref].m
              has_source == m.src # None
              item_input_reader == [string |-> m.src[1], position |-> m.start]
              aligned == /\ has_source /\ rd # None
                         /\ is_aligned_with(item_input_reader, rd[1])
          IN discarded(e, p, aligned,
                       IF aligned THEN rd
                       ELSE IF has_source THEN Some(item_input_reader)
                       ELSE None,
                       IF ~aligned /\ rd # None
                       THEN get_and_discard(l, rd[1], None, p.H)
                       ELSE Ok(<<>>, 0, rd, None, p.H))
      \* the label is set on the item that has its meta data saved
      enabled(e) ==
        incoming(e, process_incoming_item(l,
                      IF label # None
                      THEN [Alloc(e.H, StrObj(label[1]))
                              EXCEPT ![e.ref].m.label = NewRef(e.H)]
                      ELSE e.H,
                      e.ref))
  IN enabled(enable_meta_data(H, item))

\* The loop over the candidates in consume_and_put_item, each tried
\* within automatic_rollback(reader).  The item of the result is the
\* candidate that was put and handed to remove_item.
PutCandidates(c, candidates, i, l, rd, H) ==
  LET removed(r, q) ==
        IF q.ok THEN Ok(r.out, candidates[i], r.rd, Some(c), q.H)
        ELSE Fatal("ValueError", r.rd, Some(c), r.H)
      rolled_back(b) == Call("PutCandidates", <<c, candidates, i + 1, l, b.rd, b.H>>)
      after_put(s, r) ==
        IF r.st = "ok" THEN removed(r, remove_item(r.H, c, candidates[i]))
        ELSE IF r.st = "LensException"
        THEN rolled_back(set_rollbackables_state(r.H, s.state, r.rd, None))
        ELSE [r EXCEPT !.ct = Some(c), !.ict = None]
      entered(s) ==
        after_put(s, Call("Lens_put", <<l, candidates[i], rd, None, s.H, FALSE, None>>))
  IN IF i > Len(candidates) THEN Raise("NoTokenToConsume", rd, Some(c), H)
     ELSE entered(get_rollbackables_state(H, rd, None, TRUE))

\* consume_and_put_item as it would be if the label stayed on the
\* container after it was put.
consume_and_put_item_keep(c, l, rd, H) ==
  LET label_put(r) ==
        IF r.st = "ok"
        THEN Ok(r.out, 0, r.rd, Some(c), r.H)
        ELSE [r EXCEPT !.ct = Some(c), !.ict = None]
      sorted(f) ==
        IF ~f.ok THEN Fatal("Exception", rd, Some(c), H)
        ELSE Call("PutCandidates", <<c, f.items, 1, l, rd, H>>)
  IN IF ~has_type(l) \/ ~c.has_lens THEN Fatal("AssertionError", rd, Some(c), H)
     ELSE IF l.is_label
     THEN IF ~has_value(c.label) \/ (H[c.label].k = "str" /\ H[c.label].s = <<>>)
          THEN Raise("NoTokenToConsume", rd, Some(c), H)
          ELSE label_put(Call("Lens_put", <<l, c.label, rd, None, H, FALSE, None>>))
     ELSE sorted(filter_and_sort_candidate_items(H, c, get_put_candidates(H, c), l))

\* AbstractContainer.consume_and_put_item
consume_and_put_item(c, l, rd, H) ==
  LET label_put(r) ==
        IF r.st = "ok"
        THEN Ok(r.out, 0, r.rd, Some([c EXCEPT !.label = 0]), r.H)
        ELSE [r EXCEPT !.ct = Some(c), !.ict = None]
      sorted(f) ==
        IF ~f.ok THEN Fatal("Exception", rd, Some(c), H)
        ELSE Call("PutCandidates", <<c, f.items, 1, l, rd, H>>)
  IN IF ~has_type(l) \/ ~c.has_lens THEN Fatal("AssertionError", rd, Some(c), H)
     ELSE IF l.is_label
     THEN IF ~has_value(c.label) \/ (H[c.label].k = "str" /\ H[c.label].s = <<>>)
          THEN Raise("NoTokenToConsume", rd, Some(c), H)
          ELSE label_put(Call("Lens_put", <<l, c.label, rd, None, H, FALSE, None>>))
     ELSE sorted(filter_and_sort_candidate_items(H, c, get_put_candidates(H, c), l))

\* Lens.container_put
container_put(l, rd, ct, H) ==
  IF has_type(l)
  THEN IF ct = None THEN Fatal("AssertionError", rd, ct, H)
       ELSE Call("consume_and_put_item", <<ct[1], l, rd, H>>)
  ELSE Call("Lens_put", <<l, 0, rd, ct, H, FALSE, None>>)

\* And._put: the loop over the sub-lenses, from index i.
And_put(l, i, output, rd, ct, H) ==
  LET after_put(r) ==
        IF r.st # "ok" THEN [r EXCEPT !.ict = None]
        ELSE Call("And_put", <<l, i + 1, output \o r.out, r.rd, r.ct, r.H>>)
  IN IF i > Len(l.lenses) THEN Ok(output, 0, rd, ct, H)
     ELSE after_put(Call("Lens_put", <<l.lenses[i], 0, rd, ct, H, FALSE, None>>))

\* Or._put with straight puts only: a lens_a whose straight put fails is
\* followed by the next lens_a, no input is consumed and discarded and no
\* cross put is tried.
Or_put_straight(l, a, initial_state, item, rd, ct, H) ==
  LET next(b) ==
        Call("Or_put", <<l, a + 1, initial_state, item, b.rd, b.ct, b.H>>)
      after_put(r) ==
        IF r.st = "ok" THEN [r EXCEPT !.ict = None]
        ELSE IF r.st # "LensException" THEN [r EXCEPT !.ict = None]
        ELSE next(set_rollbackables_state(r.H, initial_state, r.rd, r.ct))
  IN IF a > Len(l.lenses) THEN Raise("LensException", rd, ct, H)
     ELSE after_put(Call("Lens_put", <<l.lenses[a], item, rd, ct, H, FALSE, None>>))

\* Or._put: the loop over lens_a, from index a.  initial_state is the state
\* of reader and container when Or._put was entered, to which every
\* automatic_rollback of the loop rolls back.
Or_put(l, a, initial_state, item, rd, ct, H) ==
  LET next(b) ==
        Call("Or_put", <<l, a + 1, initial_state, item, b.rd, b.ct, b.H>>)
      discarded(g) ==
        IF g.st = "LensException"
        THEN next(set_rollbackables_state(g.H, initial_state, g.rd, g.ct))
        ELSE IF g.st # "ok" THEN g
        ELSE Call("Or_cross_put", <<l, a, 1, initial_state, item, g.rd, g.ct, g.H>>)
      rolled_back(b) ==
        IF b.rd = None THEN next(b)
        ELSE discarded(get_and_discard(l.lenses[a], b.rd[1], b.ct, b.H))
      after_put(r) ==
        IF r.st = "ok" THEN [r EXCEPT !.ict = None]
        ELSE IF r.st # "LensException" THEN [r EXCEPT !.ict = None]
        ELSE rolled_back(set_rollbackables_state(r.H, initial_state, r.rd, r.ct))
  IN IF a > Len(l.lenses) THEN Raise("LensException", rd, ct, H)
     ELSE after_put(Call("Lens_put", <<l.lenses[a], item, rd, ct, H, FALSE, None>>))

\* Or._put with a cross put that leaves the reader at the start of the
\* string, reset(), and not where lens_a or the rollback left it.
Or_cross_put_reset(l, a, b, initial_state, item, rd, ct, H) ==
  LET rolled_back(q) ==
        Call("Or_cross_put", <<l, a, b + 1, initial_state, item, q.rd, q.ct, q.H>>)
      after_put(r) ==
        IF r.st = "ok" THEN [r EXCEPT !.rd = Some(reset(rd[1])), !.ict = None]
        ELSE IF r.st # "LensException" THEN [r EXCEPT !.rd = rd, !.ict = None]
        ELSE rolled_back(set_rollbackables_state(r.H, initial_state, rd, r.ct))
  IN IF b > Len(l.lenses)
     THEN Call("Or_put", <<l, a + 1, initial_state, item, rd, ct, H>>)
     ELSE IF b = a
     THEN Call("Or_cross_put", <<l, a, b + 1, initial_state, item, rd, ct, H>>)
     ELSE after_put(Call("Lens_put", <<l.lenses[b], item, None, ct, H, FALSE, None>>))

\* Or._put: the loop over lens_b for a lens_a that consumed the input.
Or_cross_put(l, a, b, initial_state, item, rd, ct, H) ==
  LET rolled_back(q) ==
        Call("Or_cross_put", <<l, a, b + 1, initial_state, item, q.rd, q.ct, q.H>>)
      after_put(r) ==
        IF r.st = "ok" THEN [r EXCEPT !.rd = rd, !.ict = None]
        ELSE IF r.st # "LensException" THEN [r EXCEPT !.rd = rd, !.ict = None]
        ELSE rolled_back(set_rollbackables_state(r.H, initial_state, rd, r.ct))
  IN IF b > Len(l.lenses)
     THEN Call("Or_put", <<l, a + 1, initial_state, item, rd, ct, H>>)
     ELSE IF b = a
     THEN Call("Or_cross_put", <<l, a, b + 1, initial_state, item, rd, ct, H>>)
     ELSE after_put(Call("Lens_put", <<l.lenses[b], item, None, ct, H, FALSE, None>>))

\* Repeat._put, the end: the minimum check and the sanity check.
Repeat_finish(l, no_put, no_got, output, rd, ct, H) ==
  IF no_put < l.min_count THEN Raise("TooFewIterations", rd, ct, H)
  ELSE IF rd # None /\ no_got < l.min_count THEN Fatal("AssertionError", rd, ct, H)
  ELSE Ok(output, 0, rd, ct, H)

\* Repeat._put: the loop that consumes and discards the excess input.
Repeat_discard(l, no_put, no_got, output, iter, rd, ct, H) ==
  LET rolled_back(b) == Repeat_finish(l, no_put, no_got, output, b.rd, b.ct, b.H)
      discarded(s, g) ==
        IF g.st = "LensException"
        THEN rolled_back(set_rollbackables_state(g.H, s.state, g.rd, g.ct))
        ELSE IF g.st # "ok" THEN g
        ELSE IF ~some_state_changed(g.H, s.state, g.rd, g.ct)
        THEN Repeat_finish(l, no_put, no_got, output, g.rd, g.ct, g.H)
        ELSE IF no_got + 1 = l.max_count
        THEN Repeat_finish(l, no_put, no_got + 1, output, g.rd, g.ct, g.H)
        ELSE Call("Repeat_discard",
                  <<l, no_put, no_got + 1, output, iter + 1, g.rd, g.ct, g.H>>)
      entered(s) == discarded(s, get_and_discard(l.lenses[1], rd[1], ct, s.H))
  IN IF iter > MaxIter THEN Diverges(rd, ct, H)
     ELSE entered(get_rollbackables_state(H, rd, ct, TRUE))

\* Repeat._put after the PUT loops: max_count = self.max_count or 0
Repeat_after_put(l, no_put, no_got, output, rd, ct, H) ==
  LET max_count == IF l.max_count = -1 THEN 0 ELSE l.max_count
  IN IF rd # None /\ no_got < max_count
     THEN Call("Repeat_discard", <<l, no_put, no_got, output, 1, rd, ct, H>>)
     ELSE Repeat_finish(l, no_put, no_got, output, rd, ct, H)

\* Repeat._put as it would be if it compared no_put with max_count before
\* it counted the item.
Repeat_put_over(l, with_reader, no_put, no_got, output, iter, rd, ct, H) ==
  LET input_reader == IF with_reader THEN rd ELSE None
      \* break: the loop of the next input reader, or the end of the loops
      break(rd1, ct1, H1) ==
        IF with_reader
        THEN Call("Repeat_put",
                  <<l, FALSE, no_put, no_got, output, iter + 1, rd1, ct1, H1>>)
        ELSE Call("Repeat_after_put", <<l, no_put, no_got, output, rd1, ct1, H1>>)
      rolled_back(b) == break(IF with_reader THEN b.rd ELSE rd, b.ct, b.H)
      after_put(s, r) ==
        LET r_rd == IF with_reader THEN r.rd ELSE rd
            got_now == IF with_reader THEN no_got + 1 ELSE no_got
        IN IF r.st = "LensException"
           THEN rolled_back(set_rollbackables_state(r.H, s.state, r.rd, r.ct))
           ELSE IF r.st # "ok" THEN [r EXCEPT !.rd = r_rd, !.ict = None]
           ELSE IF ~some_state_changed(r.H, s.state, r.rd, r.ct)
           THEN break(r_rd, r.ct, r.H)
           ELSE IF no_put = l.max_count
           THEN Call("Repeat_after_put",
                     <<l, no_put + 1, got_now, output \o r.out, r_rd, r.ct, r.H>>)
           ELSE Call("Repeat_put",
                     <<l, with_reader, no_put + 1, got_now, output \o r.out,
                       iter + 1, r_rd, r.ct, r.H>>)
      entered(s) ==
        after_put(s, container_put(l.lenses[1], input_reader, ct, s.H))
  IN IF iter > MaxIter THEN Diverges(rd, ct, H)
     ELSE entered(get_rollbackables_state(H, input_reader, ct, TRUE))

\* Repeat._put: the PUT loops.  with_reader tells which of the
\* input_readers [concrete_input_reader, None] the loop is at.
Repeat_put(l, with_reader, no_put, no_got, output, iter, rd, ct, H) ==
  LET input_reader == IF with_reader THEN rd ELSE None
      \* break: the loop of the next input reader, or the end of the loops
      break(rd1, ct1, H1) ==
        IF with_reader
        THEN Call("Repeat_put",
                  <<l, FALSE, no_put, no_got, output, iter + 1, rd1, ct1, H1>>)
        ELSE Call("Repeat_after_put", <<l, no_put, no_got, output, rd1, ct1, H1>>)
      rolled_back(b) == break(IF with_reader THEN b.rd ELSE rd, b.ct, b.H)
      after_put(s, r) ==
        LET r_rd == IF with_reader THEN r.rd ELSE rd
            got_now == IF with_reader THEN no_got + 1 ELSE no_got
        IN IF r.st = "LensException"
           THEN rolled_back(set_rollbackables_state(r.H, s.state, r.rd, r.ct))
           ELSE IF r.st # "ok" THEN [r EXCEPT !.rd = r_rd, !.ict = None]
           ELSE IF ~some_state_changed(r.H, s.state, r.rd, r.ct)
           THEN break(r_rd, r.ct, r.H)
           ELSE IF no_put + 1 = l.max_count
           THEN Call("Repeat_after_put",
                     <<l, no_put + 1, got_now, output \o r.out, r_rd, r.ct, r.H>>)
           ELSE Call("Repeat_put",
                     <<l, with_reader, no_put + 1, got_now, output \o r.out,
                       iter + 1, r_rd, r.ct, r.H>>)
      entered(s) ==
        after_put(s, container_put(l.lenses[1], input_reader, ct, s.H))
  IN IF iter > MaxIter THEN Diverges(rd, ct, H)
     ELSE entered(get_rollbackables_state(H, input_reader, ct, TRUE))

\* AnyOf._put
AnyOf_put(l, item, rd, ct, H) ==
  LET consumed(g) ==
        IF g.st # "ok" THEN g
        ELSE Ok(get_consumed_string(g.rd[1], get_pos(rd[1])), 0, g.rd, ct, g.H)
      after_get(g) ==
        IF g.st # "ok" THEN [g EXCEPT !.ct = ct]
        ELSE IF ~ /\ has_value(item) /\ g.H[item].k = "str"
                  /\ Len(g.H[item].s) = 1 /\ is_valid_char(l, g.H[item].s[1])
        THEN Raise("LensException", g.rd, ct, g.H)
        ELSE Ok(g.H[item].s, 0, g.rd, ct, g.H)
  IN IF ~has_type(l)
     THEN IF has_value(item) THEN Fatal("AssertionError", rd, ct, H)
          ELSE IF rd # None THEN consumed(AnyOf_get(l, rd[1], ct, H))
          ELSE Raise("NoDefault", rd, ct, H)
     ELSE after_get(IF rd # None THEN Call("Lens_get", <<l, rd[1], None, H, FALSE>>)
                    ELSE Ok(<<>>, 0, rd, None, H))

\* Literal._put
Literal_put(l, item, rd, ct, H) ==
  LET consumed(g) ==
        IF g.st # "ok" THEN g
        ELSE Ok(get_consumed_string(g.rd[1], get_pos(rd[1])), 0, g.rd, ct, g.H)
      after_get(g) ==
        IF g.st # "ok" THEN [g EXCEPT !.ct = ct]
        ELSE IF ~ (has_value(item) /\ g.H[item].k = "str"
                   /\ g.H[item].s = l.literal_string)
        THEN Raise("LensException", g.rd, ct, g.H)
        ELSE Ok(g.H[item].s, 0, g.rd, ct, g.H)
  IN IF ~has_type(l)
     THEN IF has_value(item) THEN Fatal("AssertionError", rd, ct, H)
          ELSE IF rd # None THEN consumed(Literal_get(l, rd[1], ct, H))
          ELSE Raise("NoDefault", rd, ct, H)
     ELSE after_get(IF rd # None THEN Call("Lens_get", <<l, rd[1], None, H, FALSE>>)
                    ELSE Ok(<<>>, 0, rd, None, H))

\* Empty._put
Empty_put(l, item, rd, ct, H) ==
  IF has_type(l)
  THEN IF ~ (has_value(item) /\ H[item].k = "str" /\ H[item].s = <<>>)
       THEN Raise("LensException", rd, ct, H)
       ELSE Ok(<<>>, 0, rd, ct, H)
  ELSE IF has_value(item) THEN Raise("LensException", rd, ct, H)
  ELSE IF rd = None THEN Fatal("AssertionError", rd, ct, H)
  ELSE Ok(<<>>, 0, rd, ct, H)

\* Group._put
Group_put(l, item, rd, ct, H) == Call("Lens_put", <<l.lenses[1], item, rd, ct, H, FALSE, None>>)

\* _put of the class of the lens.
Proper_put(l, item, rd, ct, H) ==
  CASE l.k = "AnyOf" -> Call("AnyOf_put", <<l, item, rd, ct, H>>)
    [] l.k = "Literal" -> Call("Literal_put", <<l, item, rd, ct, H>>)
    [] l.k = "Empty" -> Empty_put(l, item, rd, ct, H)
    [] l.k \in {"And", "Word"} ->
         IF has_value(item) THEN Fatal("AssertionError", rd, ct, H)
         ELSE And_put(l, 1, <<>>, rd, ct, H)
    [] l.k = "Or" ->
         Or_put(l, 1, get_rollbackables_state(H, rd, ct, TRUE).state, item, rd, ct,
                get_rollbackables_state(H, rd, ct, TRUE).H)
    [] l.k = "Repeat" -> Call("Repeat_put", <<l, rd # None, 0, 0, <<>>, 1, rd, ct, H>>)
    [] l.k = "Group" -> Group_put(l, item, rd, ct, H)
    [] l.k = "Forward" -> Forward_put(l, item, rd, ct, H)
    [] l.k = "Until" -> Call("Until_put", <<l, item, rd, ct, H>>)
    [] OTHER -> Fatal("NotImplementedError", rd, ct, H)

\* The call of a method by its name: every call from one method of the
\* lens engine to another goes through Call, a holds the arguments.
Call(op, a) ==
  CASE op = "Lens_get" ->
         Lens_get(a[1], a[2], a[3], a[4], a[5])
    [] op = "get_and_store_item" ->
         get_and_store_item(a[1], a[2], a[3], a[4])
    [] op = "container_get" ->
         container_get(a[1], a[2], a[3], a[4])
    [] op = "And_get" ->
         And_get(a[1], a[2], a[3], a[4], a[5])
    [] op = "Or_get" ->
         Or_get(a[1], a[2], a[3], a[4], a[5])
    [] op = "Repeat_get" ->
         Repeat_get(a[1], a[2], a[3], a[4], a[5], a[6])
    [] op = "Proper_get" ->
         Proper_get(a[1], a[2], a[3], a[4])
    [] op = "Lens_put" ->
         Lens_put(a[1], a[2], a[3], a[4], a[5], a[6], a[7])
    [] op = "Item_put" ->
         Item_put(a[1], a[2], a[3], a[4], a[5])
    [] op = "PutCandidates" ->
         PutCandidates(a[1], a[2], a[3], a[4], a[5], a[6])
    [] op = "consume_and_put_item" ->
         consume_and_put_item(a[1], a[2], a[3], a[4])
    [] op = "And_put" ->
         And_put(a[1], a[2], a[3], a[4], a[5], a[6])
    [] op = "Or_put" ->
         Or_put(a[1], a[2], a[3], a[4], a[5], a[6], a[7])
    [] op = "Or_cross_put" ->
         Or_cross_put(a[1], a[2], a[3], a[4], a[5], a[6], a[7], a[8])
    [] op = "Repeat_discard" ->
         Repeat_discard(a[1], a[2], a[3], a[4], a[5], a[6], a[7], a[8])
    [] op = "Repeat_after_put" ->
         Repeat_after_put(a[1], a[2], a[3], a[4], a[5], a[6], a[7])
    [] op = "Repeat_put" ->
         Repeat_put(a[1], a[2], a[3], a[4], a[5], a[6], a[7], a[8], a[9])
    [] op = "AnyOf_put" ->
         AnyOf_put(a[1], a[2], a[3], a[4], a[5])
    [] op = "Literal_put" ->
         Literal_put(a[1], a[2], a[3], a[4], a[5])
    [] op = "Group_put" ->
         Group_put(a[1], a[2], a[3], a[4], a[5])
    [] op = "Proper_put" ->
         Proper_put(a[1], a[2], a[3], a[4], a[5])
    [] op = "Until_loop" ->
         Until_loop(a[1], a[2], a[3], a[4], a[5])
    [] op = "Until_get" ->
         Until_get(a[1], a[2], a[3], a[4])
    [] op = "Until_put" ->
         Until_put(a[1], a[2], a[3], a[4], a[5])

\* ------------------------------------------------------------------------
\* The lenses of the model, after the lenses of tests/test_all.py and
\* pylens/test_basic_lenses.py.
\* ------------------------------------------------------------------------

A == AnyOf(alphas, "str", None)
N == AnyOf(nums, "int", None)
Sep == AnyOf(alphas, "none", Some(<<"a">>))
Pair == [Group(And(<<Sep, A>>, "none"), "list") EXCEPT !.auto_list = TRUE]
KeyValue == [Group(And(<<[A EXCEPT !.is_label = TRUE], N>>, "none"), "list")
               EXCEPT !.auto_list = TRUE]

\* The recursion limit of python (1000) and the default recursion_limit of
\* a Forward lens (100), in calls of a Forward lens.
DefaultLimit == 3
RecursionLimit == 2

\* test_or: a default on the second lens of an Or, then a default on the
\* Or itself; and a lens of lenses without any default.
OrDefault == Or(<<A, AnyOf(nums, "none", Some(<<"3">>))>>, "none")
OuterDefault == [OrDefault EXCEPT !.default = Some(<<"x">>)]
NoDefaults == And(<<AnyOf(alphas, "none", None), Literal(<<"1">>, "none")>>, "none")

\* A dict lens that stores an item without a label, and the same lens of
\* type list, as the alternatives of an Or.
Unlabelled == And(<<A, AnyOf(nums, "none", None)>>, "none")
UnlabelledOr == Or(<<Group(Unlabelled, "dict"), Group(Unlabelled, "list")>>, "none")

\* test_auto_list, and an auto_list lens the items of which are lists.
AutoList == [Repeat(N, 1, -1, "list") EXCEPT !.auto_list = TRUE]
AutoNested ==
  [Repeat(Group(And(<<A, N>>, "none"), "list"), 1, -1, "list")
     EXCEPT !.auto_list = TRUE]

\* The arguments of And(And(a, b), c) and of Or(Or(a, b), c), the nested
\* lens plain, with a type, or with a default.
NestedPlain == <<And(<<A, N>>, "none"), N>>
NestedTyped == <<And(<<A, N>>, "list"), N>>
NestedDefault ==
  <<[Or(<<AnyOf(alphas, "none", None), AnyOf(nums, "none", None)>>, "none")
       EXCEPT !.default = Some(<<"b">>)],
    Literal(<<"1">>, "none")>>

\* A list of two lists: a letter and a number, then two letters.
NestedPairs ==
  Group(And(<<Group(And(<<A, N>>, "none"), "list"),
              Group(And(<<A, A>>, "none"), "list")>>, "none"), "list")

TwoLabels == Group(And(<<[A EXCEPT !.is_label = TRUE],
                         [A EXCEPT !.is_label = TRUE]>>, "none"), "list")

Lenses == <<
  A,
  N,
  Repeat(N, 0, -1, "list"),
  Repeat(N, 1, 2, "list"),
  [Repeat(A, 0, -1, "list") EXCEPT !.alignment = SOURCE],
  Group(And(<<A, Literal(<<"1">>, "none"), N>>, "none"), "list"),
  Repeat(Pair, 0, -1, "list"),
  [Repeat(Pair, 0, -1, "list") EXCEPT !.alignment = SOURCE],
  Or(<<A, N>>, "none"),
  Group(Or(<<And(<<A, N>>, "none"), And(<<A, A>>, "none")>>, "none"), "list"),
  [Group(And(<<Lens_init([N EXCEPT !.label = Some(<<"n">>)]),
               Lens_init([A EXCEPT !.label = Some(<<"c">>)])>>, "none"), "dict")
     EXCEPT !.alignment = SOURCE],
  [Repeat(KeyValue, 0, -1, "dict") EXCEPT !.alignment = SOURCE],
  Repeat(Or(<<A, Empty("none", "str")>>, "none"), 0, -1, "list"),
  Repeat(Or(<<A, Empty("none", "none")>>, "none"), 1, -1, "list"),
  Or(<<A, AnyOf(nums, "str", None), N>>, "none"),
  Group(And(<<Or(<<A, Empty("none", "none")>>, "none"), N>>, "none"), "list"),
  Group(And(<<Or(<<A, Empty("none", "none")>>, "none"), A>>, "none"), "list"),
  Sep,
  AnyOf(alphas, "none", None),
  Literal(<<"1">>, "none"),
  Empty("none", "none"),
  KeyValue,
  TwoLabels,
  Group(Forward("AnyOf|R", RecursionLimit), "list"),
  Group(Forward("R|AnyOf", RecursionLimit), "list"),
  Group(Forward("R|AnyOf", 0), "list"),
  Group(Forward("S", RecursionLimit), "list"),
  Until(Literal(<<"1">>, "none"), FALSE, "str", None),
  Until(Literal(<<"1">>, "none"), TRUE, "str", None),
  Until(Literal(<<"1">>, "none"), FALSE, "none", None),
  OrDefault,
  OuterDefault,
  NoDefaults,
  UnlabelledOr,
  AutoList,
  AutoNested,
  NestedPairs,
  Or(<<A, AnyOf(alphas, "str", None), N>>, "none"),
  Until(Literal(<<"a", "1">>, "none"), FALSE, "str", None),
  Forward("N", RecursionLimit),
  Group(Forward("AN", RecursionLimit), "list"),
  Group(And(NestedPlain, "none"), "list"),
  Group(And(NestedTyped, "none"), "list"),
  Or(NestedDefault, "none"),
  Word(alphas, {}, 1, 1, "str"),
  Word(alphas, {}, 1, 2, "str"),
  Word(alphas, {}, 2, 3, "str")
>>

\* The heap of a new process.
RECURSIVE UsesForward(_)
UsesForward(l) ==
  l.k = "Forward" \/ \E i \in DOMAIN l.lenses : UsesForward(l.lenses[i])

InitialHeap(l) == IF UsesForward(l) THEN <<SysObj(DefaultLimit)>> ELSE <<>>

\* ------------------------------------------------------------------------
\* The caller
\* ------------------------------------------------------------------------

\* The value of an object, without its meta data: what python's == sees.
RECURSIVE ValueOf(_, _)
ValueOf(H, ref) ==
  IF ref = 0 THEN [k |-> "None", s |-> <<>>, n |-> 0, e |-> <<>>, d |-> {}]
  ELSE [k |-> H[ref].k, s |-> H[ref].s, n |-> H[ref].n,
        e |-> IF H[ref].k = "list"
              THEN [i \in 1..Len(H[ref].e) |-> ValueOf(H, H[ref].e[i])]
              ELSE <<>>,
        d |-> IF H[ref].k = "dict"
              THEN {<<ValueOf(H, H[ref].keys[i]), ValueOf(H, H[ref].e[i])>> :
                      i \in 1..Len(H[ref].e)}
              ELSE {}]

\* What is kept of the outcome of a get or a put.
Outcome(r) ==
  [st |-> r.st, exc |-> r.exc, out |-> r.out,
   pos |-> IF r.rd = None THEN -1 ELSE get_pos(r.rd[1]),
   left |-> IF r.ict = None THEN -1 ELSE Len(r.H[r.ict[1].container_item].e)]

NoOutcome == [st |-> "none", exc |-> "", out |-> <<>>, pos |-> -1, left |-> -1]
NoCall == [input |-> None, label |-> None]

\* The values a caller puts into an item, and the inputs other than the
\* original one a caller passes to put.
NewValues == {IntObj(1), StrObj(<<"b">>)}
OtherInputs == {<<>>} \cup StringsOfLen(1)
Labels == {<<"b">>}

Init ==
  /\ check_consumption \in BOOLEAN
  /\ lens \in {Lenses[i] : i \in DOMAIN Lenses}
  /\ input \in Strings
  /\ heap = InitialHeap(lens)
  /\ model = 0
  /\ pc = "start"
  /\ got = NoOutcome
  /\ edit = "none"
  /\ call = NoCall
  /\ before = [H |-> <<>>, model |-> 0]
  /\ res = NoOutcome
  /\ res2 = NoOutcome
  /\ back = [st |-> "none", exc |-> "", item |-> 0]
  /\ concrete_reader = None /\ cloned_reader = None /\ o_3 = None
  /\ rollback_context = NoScope
  /\ item_lens = Lens /\ item_reader = None
  /\ container = [before |-> None, after |-> None, candidate |-> 0]

\* item = lens.get(input)
Get ==
  /\ pc = "start"
  /\ \E r \in {Call("Lens_get", <<lens, ConcreteInputReader(input), None, heap, TRUE>>)} :
       /\ heap' = r.H
       /\ model' = IF r.st = "ok" THEN r.item ELSE 0
       /\ got' = Outcome(r)
       /\ pc' = IF r.st = "ok" THEN "got" ELSE "failed"
  /\ UNCHANGED <<check_consumption, lens, input, edit, call, before, res, res2, back>>
  /\ UNCHANGED scope_vars

IsList(ref) == has_value(ref) /\ heap[ref].k = "list"
IsDict(ref) == has_value(ref) /\ heap[ref].k = "dict"

\* item.append(item.pop(0))
Rotate ==
  /\ pc = "got" /\ IsList(model) /\ Len(heap[model].e) >= 2
  /\ heap' = [heap EXCEPT ![model].e = Tail(@) \o <<Head(@)>>]
  /\ edit' = "rotate" /\ pc' = "edited"
  /\ UNCHANGED <<check_consumption, lens, input, model, got, call, before, res, res2, back>>
  /\ UNCHANGED scope_vars

\* del item[0], or del item[key] for the first key of a dict
Delete ==
  /\ pc = "got" /\ (IsList(model) \/ IsDict(model)) /\ Len(heap[model].e) >= 1
  /\ heap' = [heap EXCEPT ![model].e = Tail(@),
                          ![model].keys = IF @ = <<>> THEN @ ELSE Tail(@)]
  /\ edit' = "delete" /\ pc' = "edited"
  /\ UNCHANGED <<check_consumption, lens, input, model, got, call, before, res, res2, back>>
  /\ UNCHANGED scope_vars

\* item.insert(0, v), or item["b"] = v for a dict without that key
Insert ==
  /\ pc = "got" /\ (IsList(model) \/ IsDict(model))
  /\ \E v \in NewValues :
       LET H1 == Alloc(heap, v)
           H2 == Alloc(H1, StrObj(<<"b">>))
       IN IF IsList(model)
          THEN heap' = [H1 EXCEPT ![model].e = <<NewRef(heap)>> \o @]
          ELSE /\ \A i \in 1..Len(heap[model].keys) :
                    heap[heap[model].keys[i]].s # <<"b">>
               /\ heap' = [H2 EXCEPT ![model].e = Append(@, NewRef(heap)),
                                     ![model].keys = Append(@, NewRef(H1))]
  /\ edit' = "insert" /\ pc' = "edited"
  /\ UNCHANGED <<check_consumption, lens, input, model, got, call, before, res, res2, back>>
  /\ UNCHANGED scope_vars

\* item[0] = v, or item[key] = v for the first key of a dict
Replace ==
  /\ pc = "got" /\ (IsList(model) \/ IsDict(model)) /\ Len(heap[model].e) >= 1
  /\ \E v \in NewValues :
       heap' = [Alloc(heap, v) EXCEPT ![model].e[1] = NewRef(heap)]
  /\ edit' = "replace" /\ pc' = "edited"
  /\ UNCHANGED <<check_consumption, lens, input, model, got, call, before, res, res2, back>>
  /\ UNCHANGED scope_vars

\* item["b"] = item.pop(key) for the last key of a dict without the key
\* "b": the value is kept under a label that no lens asks for
Relabel ==
  /\ pc = "got" /\ IsDict(model) /\ Len(heap[model].e) >= 1
  /\ \A i \in 1..Len(heap[model].keys) : heap[heap[model].keys[i]].s # <<"b">>
  /\ heap' = [Alloc(heap, StrObj(<<"b">>))
                EXCEPT ![model].keys[Len(heap[model].keys)] = NewRef(heap)]
  /\ edit' = "relabel" /\ pc' = "edited"
  /\ UNCHANGED <<check_consumption, lens, input, model, got, call, before, res, res2, back>>
  /\ UNCHANGED scope_vars

\* item = item[0]: the caller goes on with an item of the container
Pick ==
  /\ pc = "got" /\ IsList(model) /\ Len(heap[model].e) >= 1
  /\ model' = heap[model].e[1]
  /\ edit' = "pick" /\ pc' = "edited"
  /\ UNCHANGED <<check_consumption, lens, input, heap, got, call, before, res, res2, back>>
  /\ UNCHANGED scope_vars

\* The items a caller makes: 1, "b", "", [] and ["b"].
Created(H) ==
  {[H |-> Alloc(H, v), ref |-> NewRef(H)] :
     v \in NewValues \cup {StrObj(<<>>), ListObj(<<>>)}}
    \cup {[H |-> Alloc(Alloc(H, StrObj(<<"b">>)), ListObj(<<NewRef(H)>>)),
           ref |-> NewRef(H) + 1]}

\* item = v: the caller makes an item that was never GOT, and has no
\* original input
Create ==
  /\ pc = "start" /\ input = <<>>
  /\ \E c \in Created(heap) :
       /\ heap' = c.H
       /\ model' = c.ref
  /\ edit' = "create" /\ pc' = "edited"
  /\ UNCHANGED <<check_consumption, lens, input, got, call, before, res, res2, back>>
  /\ UNCHANGED scope_vars

\* Lens.put(item, concrete_input, label=label) of the caller.
CallPut(c) ==
  Call("Lens_put",
       <<lens, model,
         IF c.input = None THEN None ELSE Some(ConcreteInputReader(c.input[1])),
         None, heap, c.input # None, c.label>>)

\* output = lens.put(item, s, label=label), s being the original input,
\* another string or no input at all
Put ==
  /\ pc \in {"got", "edited"} /\ has_value(model)
  /\ \E s \in {None, Some(input)} \cup {Some(x) : x \in OtherInputs},
        label \in {None} \cup {Some(x) : x \in Labels} :
       \E r \in {CallPut([input |-> s, label |-> label])} :
          /\ call' = [input |-> s, label |-> label]
          /\ heap' = r.H
          /\ res' = Outcome(r)
  /\ before' = [H |-> heap, model |-> model]
  /\ pc' = "put"
  /\ UNCHANGED <<check_consumption, lens, input, model, got, edit, res2, back>>
  /\ UNCHANGED scope_vars

\* output = lens.put(): no item and no input
PutNothing ==
  /\ pc = "start" /\ input = <<>>
  /\ \E r \in {CallPut(NoCall)} :
       /\ heap' = r.H
       /\ res' = Outcome(r)
  /\ call' = NoCall
  /\ before' = [H |-> heap, model |-> model]
  /\ pc' = "put0"
  /\ UNCHANGED <<check_consumption, lens, input, model, got, edit, res2, back>>
  /\ UNCHANGED scope_vars

\* the same put once more, with the same item
PutAgain ==
  /\ pc = "put"
  /\ \E r \in {CallPut(call)} :
       /\ heap' = r.H
       /\ res2' = Outcome(r)
  /\ pc' = "put2"
  /\ UNCHANGED <<check_consumption, lens, input, model, got, edit, call, before, res, back>>
  /\ UNCHANGED scope_vars

\* lens.get(output)
GetBack ==
  /\ pc = "put" /\ res.st = "ok"
  /\ \E r \in {Call("Lens_get", <<lens, ConcreteInputReader(res.out), None, heap, TRUE>>)} :
       /\ heap' = r.H
       /\ back' = [st |-> r.st, exc |-> r.exc, item |-> r.item]
  /\ pc' = "back"
  /\ UNCHANGED <<check_consumption, lens, input, model, got, edit, call, before, res, res2>>
  /\ UNCHANGED scope_vars

Next ==
  \/ Get
  \/ Rotate
  \/ Delete
  \/ Insert
  \/ Replace
  \/ Relabel
  \/ Pick
  \/ Create
  \/ Put
  \/ PutNothing
  \/ PutAgain
  \/ GetBack

Spec == Init /\ [][Next]_vars

\* ------------------------------------------------------------------------
\* Properties
\* ------------------------------------------------------------------------

\* Whether the lens or one of its sub-lenses is of class k.
RECURSIVE HasClass(_, _)
HasClass(l, k) ==
  l.k = k \/ \E i \in 1..Len(l.lenses) : HasClass(l.lenses[i], k)

\* Whether the lens or one of its sub-lenses has alignment=SOURCE.
RECURSIVE UsesSource(_)
UsesSource(l) ==
  l.alignment = SOURCE \/ \E i \in 1..Len(l.lenses) : UsesSource(l.lenses[i])

\* Whether the lens or one of its sub-lenses is a STORE lens that matches
\* the empty string.
RECURSIVE HasEmptyStore(_)
HasEmptyStore(l) ==
  \/ l.k = "Empty" /\ has_type(l)
  \/ \E i \in 1..Len(l.lenses) : HasEmptyStore(l.lenses[i])

\* The value of the item the caller passed to put, before the put.
ValueBefore == ValueOf(before.H, before.model)

\* The put was the put of GetPut: the item as it was GOT, the original
\* input, no label.
PutBack == edit = "none" /\ call.input = Some(input) /\ call.label = None

\* C1: GetPut.  With the settings as they are shipped, when get(s) succeeded
\* with value v, put(v, s) returns exactly s.
C1_GetPut ==
  (pc = "put" /\ check_consumption /\ PutBack) =>
    (res.st = "ok" /\ res.out = input)

RECURSIVE UsesAutoList(_)
UsesAutoList(l) ==
  \/ l.k = "Repeat" /\ l.auto_list
  \/ \E i \in 1..Len(l.lenses) : UsesAutoList(l.lenses[i])

\* Whether the lens or one of its sub-lenses is a list lens with
\* combine_chars=True, the put of which takes a list of chars as well as the
\* string that its get returns.
RECURSIVE CombinesChars(_)
CombinesChars(l) ==
  \/ l.combine_chars /\ l.type = "list"
  \/ \E i \in 1..Len(l.lenses) : CombinesChars(l.lenses[i])

\* The lenses of the amended PutGet: STORE lenses without Or, without
\* SOURCE alignment, without a STORE lens that matches the empty string,
\* without Until, the put of which accepts strings that its get never
\* returns, without a Repeat with auto_list, the get of which returns
\* the item for the list of one item that was put, and without a list lens
\* with combine_chars, the get of which returns the string for the list of
\* chars that was put.
C2_Covered ==
  /\ has_type(lens) /\ ~HasClass(lens, "Or")
  /\ ~UsesSource(lens) /\ ~HasEmptyStore(lens) /\ ~HasClass(lens, "Until")
  /\ ~UsesAutoList(lens) /\ ~CombinesChars(lens)

ItemsBefore == before.H[before.model].e
IsListBefore == has_value(before.model) /\ before.H[before.model].k = "list"

\* A list-typed Repeat lens with alignment=SOURCE.
SourceRepeat == lens.k = "Repeat" /\ lens.type = "list" /\ lens.alignment = SOURCE

\* C3: SOURCE alignment.  The list of get(s) with its first item moved to the
\* end makes put, with the original input or without input, return s.
C3_SourceAlignment ==
  (/\ pc = "put" /\ check_consumption /\ SourceRepeat /\ edit = "rotate"
   /\ call.input \in {None, Some(input)} /\ call.label = None) =>
    (res.st = "ok" /\ res.out = input)

\* The text of the source span of an item that was GOT.
Span(H, item) == SubSeq(H[item].m.src[1], H[item].m.start + 1, H[item].m.end)

\* The text that the item lens of a Repeat creates for a value that was
\* never GOT: the value, after the default of the non-STORE lens when the
\* item lens is a Group of a non-STORE lens and a STORE lens.
CreatedText(child, o) ==
  IF child.k = "AnyOf" THEN StrOf(o)
  ELSE child.lenses[1].lenses[1].default[1] \o StrOf(o)

\* The items in the order of the list, each with its own text.
RECURSIVE ModelOrderText(_, _, _)
ModelOrderText(child, H, items) ==
  IF Len(items) = 0 THEN <<>>
  ELSE (IF H[Head(items)].w /\ H[Head(items)].m.src # None
        THEN Span(H, Head(items))
        ELSE CreatedText(child, H[Head(items)]))
         \o ModelOrderText(child, H, Tail(items))

\* A list-typed Repeat lens with MODEL alignment, over a STORE AnyOf or
\* over a Group of a non-STORE and a STORE AnyOf.
ModelRepeat ==
  /\ lens.k = "Repeat" /\ lens.type = "list"
  /\ ~UsesSource(lens) /\ ~HasClass(lens, "Or")

\* C4: MODEL alignment.  A put that returns has emitted the items in the
\* order of the list, each item that was GOT with the text of its own
\* source span and each item that was never GOT with the defaults.
C4_ModelAlignment ==
  (/\ pc = "put" /\ check_consumption /\ ModelRepeat /\ IsListBefore
   /\ res.st = "ok") =>
    res.out = ModelOrderText(lens.lenses[1], before.H, ItemsBefore)

\* C4: two items that were GOT with different non-STORE texts were moved
\* and put.
C4_witness ==
  /\ pc = "put" /\ check_consumption /\ ModelRepeat /\ IsListBefore
  /\ lens.lenses[1].k = "Group" /\ edit = "rotate"
  /\ res.st = "ok" /\ Len(res.out) = 4 /\ res.out[1] # res.out[3]
  /\ res.out # input

\* C5: after a put on a STORE lens returned, the item of the caller has the
\* value it had before, and the same put once more returns the same output.
C5_ModelKept ==
  /\ (pc = "put" /\ has_type(lens) /\ res.st = "ok") =>
       ValueOf(heap, model) = ValueBefore
  /\ (pc = "put2" /\ has_type(lens) /\ res.st = "ok") =>
       (res2.st = "ok" /\ res2.out = res.out)

\* C6: however a put on a STORE lens ended, the meta data of the item of
\* the caller is what it was before the put.
C6_MetaRestored ==
  (pc = "put" /\ has_type(lens) /\ before.H[before.model].w) =>
    heap[model].m = before.H[before.model].m

\* The get of the caller with a reader in place of the string, and the put
\* of the caller with a reader in place of the string: the calls without
\* the check of the consumption of the input.
GetWithReader ==
  Call("Lens_get", <<lens, ConcreteInputReader(input), None, InitialHeap(lens), FALSE>>)
PutWithReader ==
  Call("Lens_put", <<lens, before.model, Some(ConcreteInputReader(call.input[1])),
                     None, before.H, FALSE, call.label>>)

NotFullyConsumed(o) == o.st = "LensException" /\ o.exc = "NotFullyConsumed"

\* C7: a get and a put that leave input unconsumed, and a put that leaves
\* items in the container of the item, raise NotFullyConsumed with
\* check_consumption on and return with check_consumption off, when nothing
\* is raised with check_consumption off.
C7_Consumption ==
  /\ (pc \in {"got", "failed"} /\ edit = "none") =>
       \A r \in {GetWithReader} :
         (r.st = "ok" /\ ~is_fully_consumed(r.rd[1])) =>
            IF check_consumption THEN NotFullyConsumed(got) ELSE got.st = "ok"
  /\ (pc = "put" /\ call.input # None) =>
       \A r \in {PutWithReader} :
         (r.st = "ok" /\ ~is_fully_consumed(r.rd[1])) =>
            IF check_consumption THEN NotFullyConsumed(res) ELSE res.st = "ok"
  /\ (pc = "put" /\ res.left > 0 /\ (res.st = "ok" \/ NotFullyConsumed(res))) =>
       IF check_consumption THEN NotFullyConsumed(res) ELSE res.st = "ok"
  /\ ~check_consumption =>
       /\ ~NotFullyConsumed(got) /\ ~NotFullyConsumed(res)
       /\ ~NotFullyConsumed(res2) /\ back.exc # "NotFullyConsumed"

\* C7: a put raised NotFullyConsumed for the items left in the container.
C7_witness ==
  /\ pc = "put" /\ check_consumption /\ NotFullyConsumed(res) /\ res.left > 0

\* C7: a get raised NotFullyConsumed for the input left in the reader.
C7_witness_get ==
  /\ pc = "failed" /\ check_consumption /\ NotFullyConsumed(got)
  /\ got.pos < Len(input)

\* No call of the caller went into a loop without end.
NoDivergence ==
  /\ got.st # "Diverges" /\ res.st # "Diverges"
  /\ res2.st # "Diverges" /\ back.st # "Diverges"

\* C8 as it is stated: Repeat always terminates.
C8_Terminates == HasClass(lens, "Repeat") => NoDivergence

\* The length of the longest prefix of a string made of the given chars.
RECURSIVE PrefixLen(_, _)
PrefixLen(chars, str) ==
  IF Len(str) = 0 \/ Head(str) \notin chars THEN 0
  ELSE 1 + PrefixLen(chars, Tail(str))

\* A Repeat without max over a child that matches the empty string and
\* stores nothing.
EmptyRepeat ==
  /\ lens.k = "Repeat" /\ lens.max_count = -1
  /\ HasClass(lens, "Empty") /\ ~HasEmptyStore(lens)

\* C8, amended: an iteration that succeeds without changing the reader or
\* the container ends the loop and is not counted, so a Repeat over a child
\* that matches the empty string and stores nothing ends: its get returns,
\* or raises TooFewIterations when fewer than min iterations consumed
\* input.  (A child that stores an item for the empty string changes the
\* container in every iteration, and is not covered.)
C8_Terminates_amended ==
  /\ (HasClass(lens, "Repeat") /\ ~HasEmptyStore(lens)) => NoDivergence
  /\ (EmptyRepeat /\ pc \in {"got", "failed"} /\ edit = "none") =>
       IF PrefixLen(alphas, input) < lens.min_count
       THEN got.st = "LensException" /\ got.exc = "TooFewIterations"
       ELSE got.st = "ok" \/ NotFullyConsumed(got)

\* C8: the get of a Repeat over a child that matches the empty string ended
\* after two iterations that consumed input.
C8_witness ==
  /\ EmptyRepeat /\ pc = "got" /\ got.st = "ok" /\ got.pos = 2
  /\ Len(heap[model].e) = 2

Min(a, b) == IF a < b THEN a ELSE b

\* A list-typed Repeat over a STORE AnyOf: every iteration is one char.
CharRepeat ==
  /\ lens.k = "Repeat" /\ lens.type = "list" /\ lens.lenses[1].k = "AnyOf"

\* The iterations that the get of a CharRepeat counts for the input.
Counted(str) ==
  LET n == PrefixLen(lens.lenses[1].valid_chars, str)
  IN IF lens.max_count = -1 THEN n ELSE Min(n, lens.max_count)

\* The number of items that the get stored: with auto_list, the list of a
\* single item is returned as that item.
StoredCount ==
  IF lens.auto_list /\ heap[model].k # "list" THEN 1 ELSE Len(heap[model].e)

\* C9: the get of a Repeat with bounds raises TooFewIterations when fewer
\* than min iterations succeed; else it stores the items of the iterations
\* up to max, at least min and at most max of them, and leaves the reader
\* right after the last one.
C9_RepeatGet ==
  (CharRepeat /\ pc \in {"got", "failed"} /\ edit = "none") =>
    IF Counted(input) < lens.min_count
    THEN got.st = "LensException" /\ got.exc = "TooFewIterations"
    ELSE /\ got.pos = Counted(input)
         /\ got.st = "ok" \/ NotFullyConsumed(got)
         /\ got.st = "ok" =>
              /\ StoredCount = Counted(input)
              /\ StoredCount >= lens.min_count
              /\ lens.max_count # -1 => StoredCount <= lens.max_count

\* C9: a get stopped at max and left input unconsumed.
C9_witness ==
  /\ CharRepeat /\ lens.max_count # -1 /\ pc = "got" /\ got.st = "ok"
  /\ Len(heap[model].e) = lens.max_count
  /\ got.pos < PrefixLen(lens.lenses[1].valid_chars, input)

\* The items at the front of a list that a STORE AnyOf of type int puts.
RECURSIVE Puttable(_, _, _)
Puttable(child, H, items) ==
  IF Len(items) = 0 THEN 0
  ELSE IF /\ H[Head(items)].k = child.type
          /\ Len(StrOf(H[Head(items)])) = 1
          /\ StrOf(H[Head(items)])[1] \in child.valid_chars
       THEN 1 + Puttable(child, H, Tail(items))
       ELSE 0

\* A CharRepeat with MODEL alignment and a max.
BoundedRepeat == CharRepeat /\ ~UsesSource(lens) /\ lens.max_count # -1

\* C10: the put of a Repeat with bounds emits max items at most and leaves
\* the reader after max repetitions at most; of more items than max it
\* emits max and leaves the others in the container; it raises
\* TooFewIterations when fewer than min items were put.
C10_RepeatPut ==
  (BoundedRepeat /\ pc = "put" /\ IsListBefore) =>
    LET n == Len(ItemsBefore)
        p == Puttable(lens.lenses[1], before.H, ItemsBefore)
    IN /\ res.st = "ok" => Len(res.out) = Min(p, lens.max_count)
       /\ res.pos <= lens.max_count
       /\ (p > lens.max_count /\ (res.st = "ok" \/ NotFullyConsumed(res))) =>
            res.left = n - lens.max_count
       /\ p < lens.min_count =>
            (res.st = "LensException" /\ res.exc = "TooFewIterations")

\* C10: a list of more items than max was put: max items were emitted and
\* the others are left in the container.
C10_witness ==
  /\ BoundedRepeat /\ pc = "put" /\ IsListBefore
  /\ Len(ItemsBefore) > lens.max_count
  /\ res.st = "ok" /\ Len(res.out) = lens.max_count /\ res.left = 1

\* A list-typed Repeat lens without an Or below it.
ListRepeat == lens.k = "Repeat" /\ lens.type = "list" /\ ~HasClass(lens, "Or")

\* The caller deleted the first item of the list of get(input) and put the
\* rest, at least min items, against the original input.
DeletedAndPut ==
  /\ pc = "put" /\ edit = "delete" /\ call.input = Some(input)
  /\ call.label = None /\ IsListBefore
  /\ Len(ItemsBefore) >= lens.min_count

\* C11: the put of a list with an item deleted, against the original input,
\* reads and discards the repetitions that are left: the reader ends where
\* the get ended, for a Repeat with a max and for a Repeat without.
C11_RepeatDrain ==
  (ListRepeat /\ DeletedAndPut) => (res.st = "ok" /\ res.pos = got.pos)

\* C11 for the Repeats with a max, where the discard loop is entered.
C11_RepeatDrain_max ==
  (ListRepeat /\ lens.max_count # -1 /\ DeletedAndPut) =>
    (res.st = "ok" /\ res.pos = got.pos)

\* The get of the first branch of an Or that succeeds, every branch started
\* from the reader and the container as they are at the entry of the Or.
RECURSIVE FirstSuccess(_, _, _, _, _)
FirstSuccess(l, i, rd, ct, H) ==
  LET after_get(r) ==
        IF r.st # "LensException" THEN r
        ELSE FirstSuccess(l, i + 1, rd, ct, H)
  IN IF i > Len(l.lenses) THEN Raise("LensException", Some(rd), ct, H)
     ELSE after_get(Call("Lens_get", <<l.lenses[i], rd, ct, H, FALSE>>))

\* The values of the items that a get left in its container.
Stored(r) ==
  [i \in 1..Len(r.H[r.ct[1].container_item].e) |->
     ValueOf(r.H, r.H[r.ct[1].container_item].e[i])]

\* An Or lens that is got by the caller.
TopOr == lens.k = "Or"

\* A list-typed Group of an Or: the Or is entered with the empty container
\* of the Group and the reader at the start of the input.
GroupOfOr == lens.k = "Group" /\ lens.type = "list" /\ lens.lenses[1].k = "Or"

\* C12 for an Or that is got without a container.
C12_TopOrGet ==
  (pc \in {"got", "failed"} /\ edit = "none" /\ TopOr) =>
    \A r \in {FirstSuccess(lens, 1, ConcreteInputReader(input), None, <<>>)} :
      /\ got.pos = get_pos(r.rd[1])
      /\ IF r.st = "ok"
         THEN /\ got.st = "ok" \/ NotFullyConsumed(got)
              /\ got.st = "ok" => ValueOf(heap, model) = ValueOf(r.H, r.item)
         ELSE got.st = "LensException" /\ got.exc = "LensException" /\ got.pos = 0

\* C12: the get of an Or returns what its first branch that succeeds
\* returns when it starts from the reader and the container of the entry of
\* the Or, and raises LensException with the reader of the entry when no
\* branch succeeds.
C12_OrGet ==
  /\ C12_TopOrGet
  /\ (pc \in {"got", "failed"} /\ edit = "none" /\ GroupOfOr) =>
       \A lc \in {create_container(<<>>, "list")} :
       \A r \in {FirstSuccess(lens.lenses[1], 1, ConcreteInputReader(input),
                              lc.ct, lc.H)} :
         /\ got.pos = get_pos(r.rd[1])
         /\ IF r.st = "ok"
            THEN /\ got.st = "ok" \/ NotFullyConsumed(got)
                 /\ got.st = "ok" => ValueOf(heap, model).e = Stored(r)
            ELSE got.st = "LensException" /\ got.pos = 0

\* An Or of STORE AnyOf lenses that is put by the caller.
OrOfChars ==
  /\ lens.k = "Or"
  /\ \A i \in 1..Len(lens.lenses) :
       lens.lenses[i].k = "AnyOf" /\ has_type(lens.lenses[i])

\* Whether a STORE AnyOf puts the item, and whether it gets the input.
Accepts(l, o) ==
  /\ o.k = l.type /\ Len(StrOf(o)) = 1 /\ is_valid_char(l, StrOf(o)[1])
Matches(l, str) == Len(str) > 0 /\ is_valid_char(l, str[1])

\* The put of an item that was never GOT, with an input, can only be a
\* cross put: no branch both gets the input and puts the item, one branch
\* gets the input and another one puts the item.
CrossPut ==
  /\ pc = "put" /\ edit = "create" /\ OrOfChars
  /\ call.input # None /\ call.label = None
  /\ \A i \in 1..Len(lens.lenses) :
       ~(Accepts(lens.lenses[i], before.H[before.model])
         /\ Matches(lens.lenses[i], call.input[1]))
  /\ \E i, j \in 1..Len(lens.lenses) :
       /\ i # j
       /\ Matches(lens.lenses[i], call.input[1])
       /\ Accepts(lens.lenses[j], before.H[before.model])

\* C13: a cross put returns the text of the item and leaves the reader
\* after the char that the branch of the read side consumed.
C13_CrossPut ==
  CrossPut =>
    /\ res.st = "ok" \/ NotFullyConsumed(res)
    /\ res.pos = 1

\* C13 for the Or lenses of two branches, where no branch is tried and
\* fails between the read side and the branch that puts.
C13_CrossPut_two == (CrossPut /\ Len(lens.lenses) = 2) => (res.st = "ok" /\ res.pos = 1)

\* A lens Group((X | Empty()) + Y, type=list) with STORE AnyOf lenses X, Y.
OptionalFirst ==
  /\ lens.k = "Group" /\ lens.type = "list" /\ lens.lenses[1].k = "And"
  /\ Len(lens.lenses[1].lenses) = 2
  /\ lens.lenses[1].lenses[1].k = "Or"
  /\ Len(lens.lenses[1].lenses[1].lenses) = 2
  /\ lens.lenses[1].lenses[1].lenses[1].k = "AnyOf"
  /\ lens.lenses[1].lenses[1].lenses[2].k = "Empty"
  /\ lens.lenses[1].lenses[2].k = "AnyOf"

\* get(s) returned [x, y]; x was deleted and [y] put against s.
DeletedFirst ==
  /\ OptionalFirst /\ pc = "put" /\ edit = "delete"
  /\ call.input = Some(input) /\ call.label = None
  /\ got.pos = 2 /\ IsListBefore /\ Len(ItemsBefore) = 1

\* C14 as it is stated: for every X and Y the put emits the text of Y only
\* and leaves the reader where the get left it.
C14_EmptyBranch ==
  DeletedFirst => (res.st = "ok" /\ res.out = <<input[2]>> /\ res.pos = got.pos)

\* C14, amended: the same when X does not put the item y.
C14_EmptyBranch_amended ==
  (DeletedFirst
   /\ ~Accepts(lens.lenses[1].lenses[1].lenses[1], before.H[ItemsBefore[1]])) =>
    (res.st = "ok" /\ res.out = <<input[2]>> /\ res.pos = got.pos)

\* C14: [y] was put against the input of [x, y], and X does not put y.
C14_witness ==
  /\ DeletedFirst /\ check_consumption
  /\ ~Accepts(lens.lenses[1].lenses[1].lenses[1], before.H[ItemsBefore[1]])
  /\ res.st = "ok" /\ res.out = <<"1">> /\ input = <<"a", "1">>

\* ------------------------------------------------------------------------
\* Readers and automatic_rollback scopes that are used without a lens, as
\* in test_readers.py and tests/test_rollback.py.  pc tells what a behaviour
\* is about: "readers" (two readers), "scope" (a scope around a reader and
\* a container) or "lens" (a lens that gets and puts on a reader).
\* ------------------------------------------------------------------------

\* The longest input of a behaviour about a scope, and the most items that
\* are stored in its container.
MaxScopeLen == 2
MaxStored == 2

\* The exceptions that a scope is left by: RollbackException and two of its
\* subclasses, and two exceptions that are no RollbackException.
RollbackExceptions == {"RollbackException", "LensException", "EndOfStringException"}
ExceptionTypes == RollbackExceptions \cup {"AssertionError", "InfiniteRecursionException"}

\* ConcreteInputReader(reader): the copy of a reader.
CloneOf(rd) == [string |-> rd.string, position |-> rd.position]

\* What a caller sees of the targets of a scope: the position of the reader
\* and the values of the items of the container.
Targets(H, rd, ct) ==
  [pos |-> IF rd = None THEN -1 ELSE get_pos(rd[1]),
   items |-> IF ct = None THEN <<>>
             ELSE [i \in 1..Len(H[ct[1].container_item].e) |->
                     ValueOf(H, H[ct[1].container_item].e[i])]]

\* automatic_rollback.__enter__: the start state is the initial_state that
\* was passed, if any, and else the state of the targets.
automatic_rollback_enter(H, initial_state, rd, ct) ==
  IF initial_state # None /\ (rd # None \/ ct # None)
  THEN [H |-> H, state |-> initial_state[1]]
  ELSE get_rollbackables_state(H, rd, ct, TRUE)

\* automatic_rollback.__exit__ that returns True for a RollbackException.
automatic_rollback_exit_swallow(H, start_state, check, rd, ct, type) ==
  LET checked(b) ==
        [H |-> b.H, rd |-> b.rd, ct |-> b.ct,
         some_state_changed |->
           check /\ some_state_changed(b.H, start_state, b.rd, b.ct),
         suppressed |-> type \in RollbackExceptions]
  IN checked(IF type \in RollbackExceptions
             THEN set_rollbackables_state(H, start_state, rd, ct)
             ELSE [H |-> H, rd |-> rd, ct |-> ct])

\* automatic_rollback.__exit__: the targets are set back for a
\* RollbackException, the change of state is looked for when asked, and
\* nothing is returned, so that the exception is not suppressed.
automatic_rollback_exit(H, start_state, check, rd, ct, type) ==
  LET checked(b) ==
        [H |-> b.H, rd |-> b.rd, ct |-> b.ct,
         some_state_changed |->
           check /\ some_state_changed(b.H, start_state, b.rd, b.ct),
         suppressed |-> FALSE]
  IN checked(IF type \in RollbackExceptions
             THEN set_rollbackables_state(H, start_state, rd, ct)
             ELSE [H |-> H, rd |-> rd, ct |-> ct])

ScopeInit ==
  /\ check_consumption = TRUE
  /\ pc \in {"readers", "scope", "lens"}
  /\ input \in Strings
  /\ pc = "scope" => Len(input) <= MaxScopeLen
  /\ lens \in IF pc = "lens" THEN {Lenses[i] : i \in DOMAIN Lenses} ELSE {Lenses[1]}
  /\ concrete_reader \in
       IF pc = "scope" THEN {None, Some(ConcreteInputReader(input))}
       ELSE {Some(ConcreteInputReader(input))}
  /\ \E lc \in {create_container(<<>>, "list")} :
       IF pc = "scope" THEN heap = lc.H /\ o_3 \in {None, lc.ct}
       ELSE heap = InitialHeap(lens) /\ o_3 = None
  /\ cloned_reader = None
  /\ rollback_context = NoScope
  /\ item_lens = Lens /\ item_reader = None
  /\ container = [before |-> None, after |-> None, candidate |-> 0]
  /\ model = 0
  /\ got = NoOutcome
  /\ edit = "none"
  /\ call = NoCall
  /\ before = [H |-> <<>>, model |-> 0]
  /\ res = NoOutcome
  /\ res2 = NoOutcome
  /\ back = [st |-> "none", exc |-> "", item |-> 0]

\* The with statement is left: __exit__ is called with the type of the
\* exception ("none" at the end of the block).
ScopeExit(type) ==
  \E r \in {automatic_rollback_exit(heap, rollback_context.start[1],
                                    rollback_context.check, concrete_reader,
                                    o_3, type)} :
    /\ heap' = r.H
    /\ concrete_reader' = r.rd
    /\ o_3' = r.ct
    /\ rollback_context' =
         [rollback_context EXCEPT
            !.state = "left", !.changed = r.some_state_changed,
            !.type = type,
            !.raised = IF r.suppressed THEN "none" ELSE type,
            !.last = Targets(heap, concrete_reader, o_3)]

\* An exception of a reader: it leaves the scope when there is one around
\* the call, and else goes to the caller with nothing changed.
ReaderRaises(type) ==
  IF rollback_context.state = "in" THEN ScopeExit(type)
  ELSE UNCHANGED <<heap, concrete_reader, o_3, rollback_context>>

\* concrete_reader.consume_char()
ConsumeChar ==
  /\ pc \in {"readers", "scope", "lens"} /\ concrete_reader # None
  /\ rollback_context.state # "left"
  /\ \E r \in {consume_char(concrete_reader[1])} :
       IF r.ok
       THEN /\ concrete_reader' = Some(r.rd)
            /\ UNCHANGED <<heap, o_3, rollback_context>>
       ELSE ReaderRaises("EndOfStringException")
  /\ UNCHANGED <<lens_vars, cloned_reader>>

\* concrete_reader.consume_string(length)
ConsumeString ==
  /\ pc \in {"readers", "scope"} /\ concrete_reader # None
  /\ rollback_context.state # "left"
  /\ \E length \in 0..MaxLen :
     \E r \in {consume_string(concrete_reader[1], length)} :
       IF r.ok
       THEN /\ concrete_reader' = Some(r.rd)
            /\ UNCHANGED <<heap, o_3, rollback_context>>
       ELSE ReaderRaises("EndOfStringException")
  /\ UNCHANGED <<lens_vars, cloned_reader>>

\* concrete_reader.reset()
Reset ==
  /\ pc \in {"readers", "scope", "lens"} /\ concrete_reader # None
  /\ rollback_context.state # "left"
  /\ concrete_reader' = Some(reset(concrete_reader[1]))
  /\ UNCHANGED <<lens_vars, heap, cloned_reader, o_3, rollback_context>>

\* cloned_reader = ConcreteInputReader(concrete_reader), or a reader of
\* another string
Clone ==
  /\ pc = "readers" /\ cloned_reader = None
  /\ cloned_reader' \in
       {Some(CloneOf(concrete_reader[1]))}
         \cup {Some(ConcreteInputReader(s)) : s \in OtherInputs}
  /\ UNCHANGED <<lens_vars, heap, concrete_reader, o_3, rollback_context>>

\* cloned_reader.consume_char()
ConsumeCloned ==
  /\ pc = "readers" /\ cloned_reader # None
  /\ \E r \in {consume_char(cloned_reader[1])} :
       cloned_reader' = IF r.ok THEN Some(r.rd) ELSE cloned_reader
  /\ UNCHANGED <<lens_vars, heap, concrete_reader, o_3, rollback_context>>

\* o_3.store_item(1): an item is appended to the list of the container
StoreItem ==
  /\ pc = "scope" /\ o_3 # None /\ rollback_context.state # "left"
  /\ Len(heap[o_3[1].container_item].e) < MaxStored
  /\ heap' = store_item(Alloc(heap, IntObj(1)), o_3[1], NewRef(heap)).H
  /\ UNCHANGED <<lens_vars, concrete_reader, cloned_reader, o_3, rollback_context>>

\* initial_state = get_rollbackables_state(concrete_reader, o_3)
Snapshot ==
  /\ pc = "scope" /\ rollback_context.state = "out"
  /\ rollback_context.saved = None
  /\ \E r \in {get_rollbackables_state(heap, concrete_reader, o_3, TRUE)} :
       /\ heap' = r.H
       /\ rollback_context' = [rollback_context EXCEPT !.saved = Some(r.state)]
  /\ UNCHANGED <<lens_vars, concrete_reader, cloned_reader, o_3>>

\* with automatic_rollback(concrete_reader, o_3, ...): the block is entered
Enter ==
  /\ pc = "scope" /\ rollback_context.state = "out"
  /\ \E check \in BOOLEAN, reuse \in BOOLEAN :
       /\ reuse => rollback_context.saved # None
       /\ \E r \in {automatic_rollback_enter(
                      heap, IF reuse THEN rollback_context.saved ELSE None,
                      concrete_reader, o_3)} :
            /\ heap' = r.H
            /\ rollback_context' =
                 [rollback_context EXCEPT
                    !.state = "in", !.start = Some(r.state), !.check = check,
                    !.reused = reuse,
                    !.entry = Targets(heap, concrete_reader, o_3)]
  /\ UNCHANGED <<lens_vars, concrete_reader, cloned_reader, o_3>>

\* the end of the block, or a raise in it
Leave ==
  /\ pc = "scope" /\ rollback_context.state = "in"
  /\ \E type \in {"none"} \cup ExceptionTypes : ScopeExit(type)
  /\ UNCHANGED <<lens_vars, cloned_reader>>

\* item = lens.get(concrete_reader)
ReaderGet ==
  /\ pc = "lens" /\ got = NoOutcome
  /\ \E r \in {Call("Lens_get", <<lens, concrete_reader[1], None, heap, FALSE>>)} :
       /\ heap' = r.H
       /\ model' = IF r.st = "ok" THEN r.item ELSE 0
       /\ got' = Outcome(r)
       /\ concrete_reader' = r.rd
  /\ UNCHANGED <<check_consumption, lens, input, pc, edit, call, before, res,
                 res2, back, cloned_reader, o_3, rollback_context>>
  /\ UNCHANGED container_vars

\* lens.put(item, concrete_reader)
ReaderPut ==
  /\ pc = "lens" /\ got.st = "ok" /\ has_value(model) /\ res = NoOutcome
  /\ \E r \in {Call("Lens_put", <<lens, model, concrete_reader, None, heap,
                                  FALSE, None>>)} :
       /\ heap' = r.H
       /\ res' = Outcome(r)
       /\ concrete_reader' = r.rd
  /\ before' = [H |-> heap, model |-> model]
  /\ UNCHANGED <<check_consumption, lens, input, model, pc, got, edit, call,
                 res2, back, cloned_reader, o_3, rollback_context>>
  /\ UNCHANGED container_vars

ScopeNext ==
  \/ ConsumeChar
  \/ ConsumeString
  \/ Reset
  \/ Clone
  \/ ConsumeCloned
  \/ StoreItem
  \/ Snapshot
  \/ Enter
  \/ Leave
  \/ ReaderGet
  \/ ReaderPut

ScopeSpec == ScopeInit /\ [][ScopeNext]_vars

\* A scope was left that took its start state at its entry.
LeftScope == rollback_context.state = "left" /\ ~rollback_context.reused
Now == Targets(heap, concrete_reader, o_3)

\* C15: a scope that is left by a RollbackException or a subclass leaves
\* every target in its state of the entry of the scope; a scope that is
\* left at the end of the block or by another exception leaves the targets
\* as the block changed them; a target None stays None.
C15_Rollback ==
  LeftScope =>
    IF rollback_context.type \in RollbackExceptions
    THEN Now = rollback_context.entry
    ELSE Now = rollback_context.last

\* C15 for the reader alone.
C15_Rollback_reader ==
  LeftScope =>
    IF rollback_context.type \in RollbackExceptions
    THEN Now.pos = rollback_context.entry.pos
    ELSE Now = rollback_context.last

\* C16 as it is stated: a RollbackException that is raised in the scope
\* does not leave the scope.
C16_Swallowed ==
  (rollback_context.state = "left"
   /\ rollback_context.type \in RollbackExceptions) =>
    rollback_context.raised = "none"

\* C16, amended: a RollbackException that is raised in the scope sets the
\* reader back to its position of the entry and goes on to the caller of
\* the scope, as every other exception does.
C16_Propagated ==
  /\ rollback_context.state = "left" =>
       rollback_context.raised = rollback_context.type
  /\ (LeftScope /\ rollback_context.type \in RollbackExceptions) =>
       Now.pos = rollback_context.entry.pos

\* C16: a reader consumed input in a scope, the scope was left by a
\* LensException, the reader is back and the exception went on.
C16_witness ==
  /\ LeftScope /\ rollback_context.type = "LensException"
  /\ rollback_context.last.pos > rollback_context.entry.pos
  /\ Now.pos = rollback_context.entry.pos
  /\ rollback_context.raised = "LensException"

\* The position of a reader is in its string.
InString(rd) == rd = None \/ (0 <= rd[1].position /\ rd[1].position <= Len(rd[1].string))

\* C17: the position of a reader is between 0 and the length of its string
\* after consume_char, consume_string, reset, the restore of a scope and
\* the get and put of a lens; two readers are aligned exactly when their
\* strings are equal and their positions are equal.
C17_ReaderInvariant ==
  /\ InString(concrete_reader) /\ InString(cloned_reader)
  /\ got.pos \in -1..Len(input) /\ res.pos \in -1..Len(input)
  /\ (concrete_reader # None /\ cloned_reader # None) =>
       (is_aligned_with(cloned_reader[1], concrete_reader[1])
          <=> (/\ cloned_reader[1].string = concrete_reader[1].string
               /\ cloned_reader[1].position = concrete_reader[1].position))

\* C17: two readers of different strings are at the same position, after
\* the first char.
C17_witness ==
  /\ concrete_reader # None /\ cloned_reader # None
  /\ cloned_reader[1].string # concrete_reader[1].string
  /\ cloned_reader[1].position = concrete_reader[1].position
  /\ concrete_reader[1].position = 1
  /\ ~is_aligned_with(cloned_reader[1], concrete_reader[1])

\* C17: a put of a lens left the reader at the end of its string.
C17_witness_put ==
  /\ pc = "lens" /\ res.st = "ok" /\ concrete_reader # None
  /\ concrete_reader[1].position = Len(input) /\ Len(input) = MaxLen

\* ------------------------------------------------------------------------
\* C18
\* ------------------------------------------------------------------------

\* The lens and the lenses it is composed of (self.lenses, transitively).
RECURSIVE SubLenses(_)
SubLenses(l) ==
  {l} \cup UNION {SubLenses(l.lenses[i]) : i \in DOMAIN l.lenses}

\* C18: no lens that was constructed has both a type and a default.  It
\* does not hold: Empty.__init__ sets the default "" after Lens.__init__
\* has checked the arguments, so that Empty(type=str) has both.
C18_TypeXorDefault ==
  \A l \in SubLenses(lens) : ~(has_type(l) /\ l.default # None)

\* ------------------------------------------------------------------------
\* C19
\* ------------------------------------------------------------------------

\* A non-STORE lens that is not composed of other lenses.
NonStorePrimitive(l) == l.k \in {"AnyOf", "Literal", "Empty"} /\ ~has_type(l)

\* The put of the caller passed an item to a non-STORE primitive lens.
ItemToNonStore ==
  pc \in {"put", "put2", "back"} /\ NonStorePrimitive(lens) /\ has_value(before.model)

\* C19: a non-STORE primitive lens returns no item on GET, and a PUT that
\* passes an item to a non-STORE primitive lens fails.  The second part
\* does not hold: without an input reader, a lens with a default returns
\* the default and the item is dropped.  (A non-STORE lens composed of
\* STORE lenses, as Or(A, N), hands the item of its sub-lens through on
\* GET; the formula is about primitive lenses only.)
C19_NoItem ==
  /\ NonStorePrimitive(lens) /\ pc = "got" => model = 0
  /\ ItemToNonStore => res.st # "ok"

\* The part of C19 that holds: the put fails when there is an input reader
\* or when the lens has no default.
C19_NoItem_reader ==
  /\ NonStorePrimitive(lens) /\ pc = "got" => model = 0
  /\ ItemToNonStore /\ (call.input # None \/ lens.default = None) => res.st # "ok"

C19_witness ==
  ItemToNonStore /\ call.input # None /\ lens.default # None /\ res.st # "ok"

\* ------------------------------------------------------------------------
\* C20
\* ------------------------------------------------------------------------

\* The lens of test_dict: AnyOf(nums, type=int, label="n") +
\* AnyOf(alphas, type=str, label="c") in a Group of type dict.
StaticLabels == Lenses[11]

\* The keys of a dict, as strings.
KeysOf(H, ref) == {H[H[ref].keys[i]].s : i \in 1..Len(H[ref].keys)}

\* dict[key]
ValueAt(H, ref, key) ==
  H[ref].e[CHOOSE i \in 1..Len(H[ref].keys) : H[H[ref].keys[i]].s = key]

\* The put of the caller passed a dict to the lens with the static labels.
PutOfDict ==
  /\ pc \in {"put", "put2", "back"} /\ lens = StaticLabels
  /\ has_value(before.model) /\ before.H[before.model].k = "dict"

\* What C20 says of a put that succeeds: it has put the item labelled "n"
\* and then the item labelled "c", and has consumed no other item.
PutLabelled ==
  /\ {<<"n">>, <<"c">>} \subseteq KeysOf(before.H, before.model)
  /\ before.H[ValueAt(before.H, before.model, <<"n">>)].k = "int"
  /\ res.out = IntToStr(before.H[ValueAt(before.H, before.model, <<"n">>)].n)
                 \o before.H[ValueAt(before.H, before.model, <<"c">>)].s
  /\ res.left = Cardinality(KeysOf(before.H, before.model)) - 2

\* C20: in PUT, a lens with a static label only receives the items of the
\* container that have this label, and when the dict has no item for one
\* of the labels the put raises NoTokenToConsume.  The exception is not
\* always this one: with an input that the lens cannot GET, the put
\* raises the LensException of the input.
C20_StaticLabel ==
  PutOfDict =>
    /\ res.st = "ok" => PutLabelled
    /\ ~({<<"n">>, <<"c">>} \subseteq KeysOf(before.H, before.model)) =>
         res.exc = "NoTokenToConsume"

\* C20 as it holds: a put that succeeds has put the items of the two
\* labels and no other item; without an item for one of the labels the
\* put fails, and it raises NoTokenToConsume when there is no input or the
\* input is the string the dict was got from.
C20_StaticLabel_amended ==
  PutOfDict =>
    /\ res.st = "ok" => PutLabelled
    /\ ~({<<"n">>, <<"c">>} \subseteq KeysOf(before.H, before.model)) =>
         /\ res.st # "ok"
         /\ call.input \in {None, Some(input)} => res.exc = "NoTokenToConsume"

\* The dict holds an item that the lens of "c" could put, under another
\* label, and the put raised NoTokenToConsume.
C20_witness ==
  /\ PutOfDict /\ edit = "relabel" /\ res.exc = "NoTokenToConsume"
  /\ <<"b">> \in KeysOf(before.H, before.model)
  /\ before.H[ValueAt(before.H, before.model, <<"b">>)].k = "str"

\* A put of a dict with a third item succeeded: the item was left over.
C20_witness_extra ==
  PutOfDict /\ edit = "insert" /\ res.st = "ok" /\ res.left = 1

\* ------------------------------------------------------------------------
\* C21
\* ------------------------------------------------------------------------

\* The lens of the dynamic labels of test_dict.
DynamicLabels == Lenses[12]

\* The characters of the input at the places of the labels.
LabelsOf(str) == {<<str[i]>> : i \in {j \in 1..Len(str) : j % 2 = 1}}

PutDone == pc \in {"put", "put2", "back"}

\* C21: the item of an is_label lens is the label of its container and not
\* an element of it: the dict that is got has the labels as its keys and
\* the numbers as its values (of the input that was consumed), and the item of one key-value pair carries
\* its label in its meta data.  In PUT the label is put once: a container
\* without a label makes the is_label lens raise NoTokenToConsume, and so
\* does the second is_label lens of a container.
C21_DynamicLabel ==
  /\ pc = "got" /\ lens = DynamicLabels =>
       /\ IsDict(model)
       /\ KeysOf(heap, model) = LabelsOf(SubSeq(input, 1, got.pos))
       /\ \A i \in 1..Len(heap[model].e) : heap[heap[model].e[i]].k = "int"
  /\ pc = "got" /\ lens = KeyValue =>
       /\ heap[model].k = "int"
       /\ has_value(heap[model].m.label)
       /\ heap[heap[model].m.label].s = <<input[1]>>
  /\ pc = "got" => lens # TwoLabels
  /\ PutDone /\ lens = KeyValue /\ call.label = None /\ call.input = None
       /\ ~has_value(before.H[before.model].m.label) =>
       res.exc = "NoTokenToConsume"
  /\ PutDone /\ lens = TwoLabels =>
       /\ res.st # "ok"
       /\ call.input = None /\ call.label # None
            /\ before.H[before.model].k = "list" => res.exc = "NoTokenToConsume"

\* The second is_label lens found the label of the container consumed.
C21_witness ==
  /\ PutDone /\ lens = TwoLabels /\ call.input = None /\ call.label # None
  /\ before.H[before.model].k = "list" /\ res.exc = "NoTokenToConsume"

\* A dict with two labels was got.
C21_witness_get ==
  pc = "got" /\ lens = DynamicLabels /\ Cardinality(KeysOf(heap, model)) = 2

\* ------------------------------------------------------------------------
\* C22
\* ------------------------------------------------------------------------

\* The items of the heap.
Items == {x \in 1..Len(heap) : heap[x].k # "sys"}

\* C22: enable_meta_data is idempotent.  For every item x of the heap,
\* enable_meta_data(enable_meta_data(x)) is the object enable_meta_data(x)
\* and allocates nothing; the meta data that x already had is kept; and
\* enable_meta_data(x) == x.
C22_Idempotent ==
  \A x \in Items :
    \A e \in {enable_meta_data(heap, x)} :
      /\ \A e2 \in {enable_meta_data(e.H, e.ref)} : e2.ref = e.ref /\ e2.H = e.H
      /\ item_has_meta(e.H, e.ref)
      /\ item_has_meta(heap, x) => e.ref = x /\ e.H[e.ref].m = heap[x].m
      /\ PyEq(e.H, e.ref, x)

\* An item that was got, with the meta data of its origin, was put, and the
\* heap holds an object without meta data too.
C22_witness ==
  /\ PutDone /\ res.st = "ok"
  /\ item_has_meta(heap, model) /\ heap[model].m.start >= 0
  /\ \E x \in Items : ~item_has_meta(heap, x)

\* ------------------------------------------------------------------------
\* C23, C24
\* ------------------------------------------------------------------------

\* The lenses of test_forward: the grammar that tries the character first,
\* the grammar that tries itself first, and the latter in a list Group.
CharFirst == Group(Forward("AnyOf|R", RecursionLimit), "list")
SelfFirst == Group(Forward("R|AnyOf", RecursionLimit), "list")

\* The item of the put is a list of one character.
OneCharList ==
  /\ before.H[before.model].k = "list" /\ Len(before.H[before.model].e) = 1
  /\ before.H[before.H[before.model].e[1]].k = "str"
  /\ before.H[before.H[before.model].e[1]].s \in {<<"a">>, <<"b">>}

C23_witness_nested ==
  /\ PutDone /\ UsesForward(lens) /\ res.st = "ok" /\ Len(res.out) >= 1
  /\ lens.lenses[1].name = "S"

C23_witness_lens ==
  PutDone /\ UsesForward(lens) /\ res.st = "LensException"

\* C24: CREATE of a list of one character with the grammar that tries
\* itself first raises InfiniteRecursion, which no Or and no trial of a
\* candidate absorbs; with the grammar that tries the character first it
\* returns the character in its brackets.
C24_InfiniteRecursion ==
  PutDone /\ edit = "create" /\ OneCharList /\ call.input = None
    /\ call.label = None =>
    /\ lens = SelfFirst => res.st = "Fatal" /\ res.exc = "InfiniteRecursion"
    /\ lens = CharFirst =>
         /\ res.st = "ok"
         /\ res.out = <<"1">> \o before.H[before.H[before.model].e[1]].s \o <<"1">>

C24_witness ==
  /\ PutDone /\ edit = "create" /\ OneCharList /\ call.input = None
  /\ lens = SelfFirst /\ res.exc = "InfiniteRecursion"

C24_witness_char ==
  /\ PutDone /\ edit = "create" /\ OneCharList /\ call.input = None
  /\ lens = CharFirst /\ res.st = "ok"

\* ------------------------------------------------------------------------
\* C25
\* ------------------------------------------------------------------------

\* C25: the put of an Until lens with a type rejects an item that is not a
\* string of one character at least.  It does not hold for the empty
\* string, which is put as it is.
C25_UntilPut ==
  PutDone /\ lens.k = "Until" /\ has_type(lens)
    /\ ~(before.H[before.model].k = "str" /\ Len(before.H[before.model].s) > 0)
    => res.st # "ok"

\* The part of C25 that holds: an item that is not a string is rejected.
C25_UntilPut_type ==
  PutDone /\ lens.k = "Until" /\ has_type(lens)
    /\ before.H[before.model].k # "str" => res.st # "ok"

\* ------------------------------------------------------------------------
\* C26
\* ------------------------------------------------------------------------

\* A put without an input, of an item or of nothing.
NoInputPut == (PutDone \/ pc = "put0") /\ call.input = None

\* C26: a put without an input on a lens that has no type and has a
\* default returns the default as it is, whatever the defaults of the
\* sub-lenses; an Or without a default returns the default of its sub-lens;
\* an AnyOf or Until lens without a type and without a default, alone or in
\* an And that has no default either, raises NoDefault when it is put
\* nothing.
C26_Default ==
  /\ (NoInputPut /\ ~has_type(lens) /\ lens.default # None) =>
       (res.st = "ok" /\ res.out = lens.default[1])
  /\ (pc = "put0" /\ lens = OrDefault) =>
       (res.st = "ok" /\ res.out = <<"3">>)
  /\ (pc = "put0" /\ ~has_type(lens) /\ lens.default = None
        /\ (lens.k \in {"AnyOf", "Until"} \/ lens = NoDefaults)) =>
       (res.st = "LensException" /\ res.exc = "NoDefault")

C26_witness ==
  pc = "put0" /\ lens = OuterDefault /\ res.st = "ok" /\ res.out = <<"x">>

C26_witness_none ==
  /\ pc = "put0" /\ lens.k = "Until" /\ ~has_type(lens)
  /\ res.exc = "NoDefault"

C26_witness_enclosed ==
  pc = "put0" /\ lens = NoDefaults /\ res.exc = "NoDefault"

\* ------------------------------------------------------------------------
\* C27
\* ------------------------------------------------------------------------

\* C27: the get of a text by the Or of a dict lens that stores an item
\* without a label and of a list lens ends with a fatal error, the one of
\* the dict container.  It does not hold: the dict container raises a
\* LensException, the Or rolls back and the list lens gets the text.
C27_Fatal ==
  (got.st # "none" /\ lens = UnlabelledOr
     /\ Len(input) = 2 /\ input[1] \in alphas /\ input[2] \in nums) =>
    got.st = "Fatal"

\* ------------------------------------------------------------------------
\* C28
\* ------------------------------------------------------------------------

\* The number of items the auto_list lens extracted from the input, and
\* the text it extracted them from.
Extracted == IF lens = AutoNested THEN got.pos \div 2 ELSE got.pos
ExtractedFrom == SubSeq(input, 1, got.pos)

\* get(s) of an auto_list lens returned the sole item, or the list.
AutoGot ==
  /\ lens \in {AutoList, AutoNested} /\ got.st = "ok"
  /\ pc \in {"got", "put", "put2", "back"} /\ edit = "none"

\* put(get(s)) or put(get(s), s)
AutoPut ==
  /\ AutoGot /\ PutDone /\ call.input \in {None, Some(input)}
  /\ call.label = None

\* C28: get of an auto_list lens of type list returns the sole item when
\* one item was extracted and the list otherwise, and put of what get
\* returned returns the text that was got, whether the sole item is a number or a list.
\* It does not hold for a sole item that is a list.
C28_AutoList ==
  /\ AutoGot /\ pc = "got" =>
       IF Extracted = 1
       THEN heap[model].k = (IF lens = AutoNested THEN "list" ELSE "int")
            /\ (lens = AutoNested => Len(heap[model].e) = 2)
       ELSE heap[model].k = "list" /\ Len(heap[model].e) = Extracted
  /\ AutoPut => (res.st = "ok" /\ res.out = ExtractedFrom)

\* The same for the lens of test_auto_list, the items of which are numbers.
C28_AutoList_scalar == lens = AutoList => C28_AutoList

C28_witness_scalar ==
  /\ AutoPut /\ lens = AutoList /\ Len(input) = 1 /\ res.out = input

\* ------------------------------------------------------------------------
\* C29
\* ------------------------------------------------------------------------

\* The nested lists of the list that was put, before the put.
NestedBefore ==
  {x \in {ItemsBefore[i] : i \in 1..Len(ItemsBefore)} : before.H[x].k = "list"}

\* C29: the trial of a candidate that fails leaves no trace in the
\* candidate.  The list of get(s) with its first list moved to the end is
\* put back as s: the first lens tries the list of two letters, fails at its
\* second item, and takes the other list, and the second lens takes the
\* list of two letters; and after a put that failed, every nested list
\* holds the items it held before.  It does not hold: the letter the failed
\* trial consumed is missing from the nested list.
C29_NoTrace ==
  (pc = "put" /\ lens = NestedPairs /\ edit = "rotate" /\ got.pos = 4
     /\ call.input \in {None, Some(input)} /\ call.label = None) =>
    /\ res.st = "ok" /\ res.out = input
    /\ \A x \in NestedBefore : Len(heap[x].e) = Len(before.H[x].e)

\* ------------------------------------------------------------------------
\* C30
\* ------------------------------------------------------------------------

\* A get or a put of the lens on the reader of the caller returned.
ReaderCallReturned ==
  /\ pc = "lens" /\ concrete_reader # None
  /\ \/ got = NoOutcome /\ got'.st = "ok"
     \/ res = NoOutcome /\ res'.st = "ok"

\* C30: a get or a put of a lens that returns leaves the reader of the
\* caller, at whatever position the caller passed it, at that position or
\* after it, never before it.
C30_Monotone ==
  [][ReaderCallReturned =>
       /\ concrete_reader' # None
       /\ get_pos(concrete_reader'[1]) >= get_pos(concrete_reader[1])]_vars

\* A cross put that started after the first character: the Or of single
\* characters consumed the number at position 1 and put the letter.
C30_witness ==
  /\ pc = "lens" /\ lens = Or(<<A, N>>, "none")
  /\ got.st = "ok" /\ res.st = "ok"
  /\ get_pos(concrete_reader[1]) = 2
  /\ input[2] = "1" /\ res.out = <<"a">>

\* A cross put whose first lens_b failed: the reader is where the put
\* found it, after the first character.
C30_witness_rewound ==
  /\ pc = "lens" /\ lens = Or(<<A, AnyOf(alphas, "str", None), N>>, "none")
  /\ got.st = "ok" /\ res.st = "ok"
  /\ get_pos(concrete_reader[1]) = 1
  /\ input = <<"1", "a">> /\ res.out = <<"1">>

\* A get of Until with include_lens=False that started after the first
\* character and stopped before the stopping lens.
C30_witness_until ==
  /\ pc = "lens" /\ lens = Until(Literal(<<"1">>, "none"), FALSE, "str", None)
  /\ got.st = "ok" /\ res = NoOutcome
  /\ input = <<"1", "a", "a", "1">>
  /\ get_pos(concrete_reader[1]) = 3

\* ------------------------------------------------------------------------
\* C31
\* ------------------------------------------------------------------------

\* The item that was put has a source and the outer input is that source,
\* read from the same position: the readers are aligned.
SourceAligned ==
  /\ before.H[before.model].m.src = call.input
  /\ before.H[before.model].m.start = 0

\* C31: when the put of a STORE lens with an item and an outer input
\* returns, the reader of the outer input is where a get of the lens that
\* succeeds on that input leaves it, whether the source of the item is the
\* outer input, another text, or the item has no source.
C31_Weaving ==
  (pc = "put" /\ has_type(lens) /\ call.input # None /\ res.st = "ok") =>
    \A g \in {Call("Lens_get", <<lens, ConcreteInputReader(call.input[1]), None,
                                 before.H, FALSE>>)} :
      g.st = "ok" => res.pos = get_pos(g.rd[1])

\* C31 for an item whose source is not the outer input, or that has no
\* source: the outer input is read and discarded by a get of the lens, and
\* the reader is where that get leaves it.
C31_Weaving_unaligned ==
  (pc = "put" /\ has_type(lens) /\ call.input # None /\ res.st = "ok"
     /\ ~SourceAligned) =>
    \A g \in {Call("Lens_get", <<lens, ConcreteInputReader(call.input[1]), None,
                                 before.H, FALSE>>)} :
      g.st = "ok" /\ res.pos = get_pos(g.rd[1])

\* ------------------------------------------------------------------------
\* C32
\* ------------------------------------------------------------------------

\* The stop text of an Until lens over a Literal.
StopText == lens.lenses[1].literal_string

\* Whether the stop text is in the string at the position.
StopsAt(str, p) ==
  p + Len(StopText) <= Len(str) /\ SubSeq(str, p + 1, p + Len(StopText)) = StopText

\* The first position of the string where the stop text is, or the length
\* of the string when it is nowhere.
FirstStop(str) ==
  IF \E p \in 0..Len(str) : StopsAt(str, p)
  THEN CHOOSE p \in 0..Len(str) :
         StopsAt(str, p) /\ \A q \in 0..(p - 1) : ~StopsAt(str, q)
  ELSE Len(str)

\* Where the get of the Until lens leaves the reader.
UntilEnd(str) ==
  IF lens.include_lens /\ FirstStop(str) < Len(str)
  THEN FirstStop(str) + Len(StopText) ELSE FirstStop(str)

\* An Until lens over a Literal was got.
UntilGot ==
  /\ pc \in {"got", "failed"} /\ lens.k = "Until" /\ lens.lenses[1].k = "Literal"

\* C32: the get of an Until lens stops at the first position where the stop
\* lens matches.  With include_lens=False the reader is left before the stop
\* text and the slice has no position where the stop lens matches; with
\* include_lens=True the stop text is the end of the slice and the reader is
\* after it; without a match the rest of the input is consumed; and when
\* nothing would be consumed, LensException is raised.  A STORE lens
\* returns the slice.
C32_UntilGet ==
  UntilGot =>
    IF UntilEnd(input) = 0
    THEN got.st = "LensException" /\ got.exc = "LensException"
    ELSE /\ got.st = "ok" \/ NotFullyConsumed(got)
         /\ got.pos = UntilEnd(input)
         /\ (got.st = "ok" /\ has_type(lens)) =>
              /\ heap[model].k = "str"
              /\ heap[model].s = SubSeq(input, 1, UntilEnd(input))
              /\ Len(heap[model].s) >= 1
              /\ ~lens.include_lens =>
                   \A p \in 0..(Len(heap[model].s) - 1) : ~StopsAt(heap[model].s, p)
              /\ (lens.include_lens /\ FirstStop(input) < Len(input)) =>
                   SubSeq(heap[model].s, Len(heap[model].s) - Len(StopText) + 1,
                          Len(heap[model].s)) = StopText

\* A get with include_lens=False stopped before a stop text of two
\* characters in the middle of the input.
C32_witness ==
  /\ UntilGot /\ ~lens.include_lens /\ Len(StopText) = 2 /\ got.st = "ok"
  /\ heap[model].s = <<"b">> /\ input = <<"b", "a", "1", "a">>

\* A get with include_lens=True whose slice is the stop text alone.
C32_witness_include ==
  /\ UntilGot /\ lens.include_lens /\ got.st = "ok"
  /\ heap[model].s = <<"1">> /\ got.pos = 1 /\ Len(input) = 3

\* A get without a stop text in the input consumed all of it.
C32_witness_rest ==
  /\ UntilGot /\ got.st = "ok" /\ got.pos = Len(input)
  /\ input = <<"a", "b", "a">>

\* ------------------------------------------------------------------------
\* C33
\* ------------------------------------------------------------------------

\* The lens with the lens that its Forward lens is bound to in the place of
\* the Forward lens: the lens itself is a Forward lens, or a Group of one.
Unforwarded(l) ==
  IF l.k = "Forward" THEN BoundLens(l)
  ELSE [l EXCEPT !.lenses = <<BoundLens(l.lenses[1])>>]

\* The Forward lens of the caller, which uses it alone or in a Group.
TheForward == IF lens.k = "Forward" THEN lens ELSE lens.lenses[1]

\* The caller uses a Forward lens that is bound to a lens without
\* recursion: the depth of the calls and the recursion limit play no part.
ForwardLens ==
  /\ lens.k = "Forward" \/ (lens.k = "Group" /\ lens.lenses[1].k = "Forward")
  /\ ~UsesForward(BoundLens(TheForward))

\* C33: a Forward lens returns from get and from put what the lens it is
\* bound to returns, with the same items, the same position of the reader
\* and the same exception.  It does not hold for a lens with a type: the
\* Forward lens calls _get and _put of the lens, and the item is neither
\* cast nor framed by Lens.get and Lens.put of the lens.
C33_Forward ==
  /\ (ForwardLens /\ pc \in {"got", "failed"} /\ edit = "none") =>
       \A g \in {Call("Lens_get", <<Unforwarded(lens), ConcreteInputReader(input),
                                    None, InitialHeap(lens), TRUE>>)} :
         /\ Outcome(g) = got
         /\ g.st = "ok" => ValueOf(g.H, g.item) = ValueOf(heap, model)
  /\ (ForwardLens /\ pc = "put") =>
       \A r \in {Call("Lens_put",
                      <<Unforwarded(lens), before.model,
                        IF call.input = None THEN None
                        ELSE Some(ConcreteInputReader(call.input[1])),
                        None, before.H, call.input # None, call.label>>)} :
         /\ r.st = res.st /\ r.exc = res.exc /\ r.out = res.out
         /\ Outcome(r).pos = res.pos

\* C33 for a Forward lens that is bound to a lens without a type.
C33_Forward_untyped ==
  (ForwardLens /\ ~has_type(BoundLens(TheForward))) => C33_Forward

\* A list was got through a Forward lens that is bound to a lens without a
\* type, and was put back.
C33_witness_untyped ==
  /\ ForwardLens /\ ~has_type(BoundLens(TheForward))
  /\ pc = "put" /\ res.st = "ok" /\ res.out = <<"a", "1">>

\* ------------------------------------------------------------------------
\* C34
\* ------------------------------------------------------------------------

\* The And or Or of the arguments as they are, nothing flattened.
Nesting(k, lenses) == [Lens EXCEPT !.k = k, !.lenses = lenses]

\* The lens of the caller was built from a nested And or Or.
FromPlain == lens = Group(And(NestedPlain, "none"), "list")
FromTyped == lens = Group(And(NestedTyped, "none"), "list")
FromDefault == lens = Or(NestedDefault, "none")

\* The lens of the caller with the nesting it was built from.
Unflattened ==
  IF FromPlain THEN Group(Nesting("And", NestedPlain), "list")
  ELSE IF FromTyped THEN Group(Nesting("And", NestedTyped), "list")
  ELSE Nesting("Or", NestedDefault)

\* The get and the put of the caller gave what the nesting gives.
SameAsNesting ==
  /\ (pc \in {"got", "failed"} /\ edit = "none") =>
       \A g \in {Call("Lens_get", <<Unflattened, ConcreteInputReader(input),
                                    None, InitialHeap(lens), TRUE>>)} :
         /\ Outcome(g) = got
         /\ g.st = "ok" => ValueOf(g.H, g.item) = ValueOf(heap, model)
  /\ pc \in {"put", "put0"} =>
       \A r \in {Call("Lens_put",
                      <<Unflattened, before.model,
                        IF call.input = None THEN None
                        ELSE Some(ConcreteInputReader(call.input[1])),
                        None, before.H, call.input # None, call.label>>)} :
         /\ r.st = res.st /\ r.exc = res.exc /\ r.out = res.out
         /\ Outcome(r).pos = res.pos

\* C34: an And that is built from a nested And, and an Or from a nested
\* Or, gets and puts what the nesting gets and puts, also when the nested
\* lens has a type or a default of its own.  It does not hold: the nested
\* lens is flattened with its options dropped.
C34_Flatten ==
  (FromPlain \/ FromTyped \/ FromDefault) => SameAsNesting

\* C34 for a nested And without options.
C34_Flatten_plain == FromPlain => SameAsNesting

\* The list of the flattened And without options was got and put back.
C34_witness_plain ==
  /\ FromPlain /\ pc = "put" /\ res.st = "ok" /\ res.out = <<"a", "1", "1">>

\* ------------------------------------------------------------------------
\* C35
\* ------------------------------------------------------------------------

\* The largest min_count and max_count of the Word lenses that are looked
\* at.
MaxCount == 3

\* The lens of the caller is Word(alphas, type=str, min_count, max_count).
IsWord(min_count, max_count) ==
  /\ ~Word_init_fails(min_count, max_count, "str")
  /\ lens = Word(alphas, {}, min_count, max_count, "str")

\* C35: for 1 <= min_count <= max_count, Word(body_chars, min_count,
\* max_count) is constructed, and its get consumes the chars of body_chars
\* at the front of the input, max_count of them at most, and raises when
\* they are fewer than min_count.  It does not hold: max_count = 1 makes a
\* Word without a max, and max_count = min_count > 1 fails the assertion of
\* Repeat.__init__.
C35_WordBounds ==
  \A min_count \in 1..MaxCount : \A max_count \in min_count..MaxCount :
    /\ (lens.k = "Word" /\ pc \in {"got", "failed"}) =>
         ~Word_init_fails(min_count, max_count, "str")
    /\ (IsWord(min_count, max_count) /\ pc \in {"got", "failed"}) =>
         IF PrefixLen(alphas, input) < min_count
         THEN got.st = "LensException"
         ELSE /\ got.st = "ok" \/ NotFullyConsumed(got)
              /\ got.pos = Min(PrefixLen(alphas, input), max_count)
              /\ got.st = "ok" => heap[model].s = SubSeq(input, 1, got.pos)

\* The get of a Word that is constructed, with min_count < max_count and
\* max_count > 1.
C35_WordBounds_some ==
  \A min_count \in 1..MaxCount : \A max_count \in (min_count + 1)..MaxCount :
    /\ ~Word_init_fails(min_count, max_count, "str")
    /\ (IsWord(min_count, max_count) /\ pc \in {"got", "failed"}) =>
         IF PrefixLen(alphas, input) < min_count
         THEN got.st = "LensException"
         ELSE /\ got.st = "ok" \/ NotFullyConsumed(got)
              /\ got.pos = Min(PrefixLen(alphas, input), max_count)
              /\ got.st = "ok" => heap[model].s = SubSeq(input, 1, got.pos)

\* A Word of two chars at least and three at most left the fourth char.
C35_witness_some ==
  /\ IsWord(2, 3) /\ pc = "got" /\ got.st = "ok" /\ got.pos = 3
  /\ input = <<"a", "b", "a", "b">>

\* ------------------------------------------------------------------------
\* Direct calls of a container: a caller that has got a list or a dict, or
\* has made one, wraps it as Lens.put does and asks the container to put one
\* item through one of the STORE lenses of its lens.
\* ------------------------------------------------------------------------

\* The STORE lenses that consume from the container of the lens l: the typed
\* lenses below l, down to the first typed lens on each path.
RECURSIVE StoreLenses(_)
StoreLenses(l) ==
  UNION {IF has_type(l.lenses[i]) THEN {l.lenses[i]} ELSE StoreLenses(l.lenses[i]) :
           i \in DOMAIN l.lenses}

\* The readers of a direct call: none, a reader of the original input at its
\* start, or that reader after one character.
DirectReaders ==
  {None, Some(ConcreteInputReader(input))}
    \cup IF Len(input) >= 1
         THEN {Some(consume_char(ConcreteInputReader(input)).rd)} ELSE {}

\* container.consume_and_put_item(lens, concrete_input_reader)
ConsumeAndPut ==
  /\ pc \in {"got", "edited"} /\ (IsList(model) \/ IsDict(model))
  /\ heap[model].k = lens.type
  /\ \E l \in StoreLenses(lens), rd \in DirectReaders :
       \E w \in {wrap_container(heap, model)} :
         \E c \in {set_container_lens(w.ct[1], lens)} :
           \E r \in {consume_and_put_item(c, l, rd, w.H)} :
              /\ item_lens' = l
              /\ item_reader' = rd
              /\ before' = [H |-> w.H, model |-> model]
              /\ container' = [before |-> Some(c), after |-> r.ct, candidate |-> r.item]
              /\ heap' = r.H
              /\ res' = Outcome(r)
  /\ pc' = "consumed"
  /\ UNCHANGED <<check_consumption, lens, input, model, got, edit, call, res2, back>>
  /\ UNCHANGED <<concrete_reader, cloned_reader, o_3, rollback_context>>

ContainerNext ==
  \/ Get
  \/ Rotate
  \/ Delete
  \/ Insert
  \/ Replace
  \/ Relabel
  \/ Create
  \/ ConsumeAndPut

ContainerSpec == Init /\ [][ContainerNext]_vars

\* consume_and_put_item raised NoTokenToConsumeException.
ConsumeFailed == pc = "consumed" /\ res.exc = "NoTokenToConsume"

\* The items of the container before and after the call.
CandidatesBefore == before.H[container.before[1].container_item].e
CandidatesAfter == heap[container.after[1].container_item].e

\* The reader is where it was before the call.
ReaderKept ==
  res.pos = IF item_reader = None THEN -1 ELSE get_pos(item_reader[1])

\* After a failed consume_and_put_item the container holds the same item
\* objects in the same order and the same label, and the reader is at the
\* position it had.
C36_FailedPut_shallow ==
  ConsumeFailed =>
    /\ container.after = container.before
    /\ CandidatesAfter = CandidatesBefore
    /\ ReaderKept

\* C36: when consume_and_put_item raises NoTokenToConsume (no candidate,
\* every candidate's put failed, or no label for an is_label lens), the
\* container holds the same items and label as before the call, the items
\* being what they were, and the reader is at the position it had before
\* the call.
C36_FailedPut ==
  ConsumeFailed =>
    /\ container.after = container.before
    /\ CandidatesAfter = CandidatesBefore
    /\ \A i \in DOMAIN CandidatesBefore :
         ValueOf(heap, CandidatesAfter[i]) = ValueOf(before.H, CandidatesBefore[i])
    /\ container.before[1].label # 0 =>
         ValueOf(heap, container.after[1].label)
           = ValueOf(before.H, container.before[1].label)
    /\ ReaderKept

\* Every candidate's put failed, after the reader had moved.
C36_witness ==
  /\ ConsumeFailed /\ ~item_lens.is_label
  /\ Len(CandidatesBefore) >= 1
  /\ item_reader # None /\ get_pos(item_reader[1]) = 1

\* No label for an is_label lens.
C36_witness_label == ConsumeFailed /\ item_lens.is_label

\* No candidate at all.
C36_witness_empty == ConsumeFailed /\ ~item_lens.is_label /\ CandidatesBefore = <<>>

\* consume_and_put_item has put a candidate and returned its output.
ConsumeDone == pc = "consumed" /\ res.st = "ok" /\ ~item_lens.is_label

\* The sequence s without its element of index j.
Without(s, j) == SubSeq(s, 1, j - 1) \o SubSeq(s, j + 1, Len(s))

\* The container has lost the candidate that was put, and no other item.
LostThePut ==
  \E j \in DOMAIN CandidatesBefore :
     /\ CandidatesBefore[j] = container.candidate
     /\ CandidatesAfter = Without(CandidatesBefore, j)

\* An item of the same value as the candidate that was put comes before it
\* in the container.
EqualItemBefore ==
  \E j, i \in DOMAIN CandidatesBefore :
     /\ i < j /\ CandidatesBefore[j] = container.candidate
     /\ ValueOf(before.H, CandidatesBefore[i]) = ValueOf(before.H, CandidatesBefore[j])

\* C37: after consume_and_put_item succeeds for a candidate, the container
\* has lost that very item and no other, also when it holds another item of
\* the same value and the alignment picked the candidate from a later
\* position.
C37_RemovesThePut == ConsumeDone => LostThePut

\* The same where no item of the same value comes before the candidate.
C37_RemovesThePut_first == (ConsumeDone /\ ~EqualItemBefore) => LostThePut

C37_witness_first ==
  /\ ConsumeDone /\ ~EqualItemBefore
  /\ Len(CandidatesBefore) >= 2 /\ CandidatesBefore[1] # container.candidate

\* ------------------------------------------------------------------------
\* Direct calls of Or._put, on the arguments that Lens.put hands to it: the
\* item of the caller and no container for a lens that is an Or itself, no
\* item and the container of the caller's list or dict for an Or within a
\* container lens.
\* ------------------------------------------------------------------------

\* The Or lenses without a type that put from the container of the lens l.
RECURSIVE OrLenses(_)
OrLenses(l) ==
  UNION {IF has_type(l.lenses[i]) THEN {}
         ELSE (IF l.lenses[i].k = "Or" THEN {l.lenses[i]} ELSE {})
                \cup OrLenses(l.lenses[i]) :
           i \in DOMAIN l.lenses}

\* The calls of Or._put(item, concrete_input_reader, current_container) that
\* the caller can make in the state: the lens, the item, the container and
\* the heap of each.
OrPutCalls ==
  {[l |-> lens, item |-> model, ct |-> None, H |-> heap] :
     x \in IF lens.k = "Or" /\ ~has_type(lens) /\ has_value(model)
           THEN {1} ELSE {}}
    \cup
  (IF (IsList(model) \/ IsDict(model)) /\ heap[model].k = lens.type
   THEN {[l |-> l, item |-> 0,
          ct |-> Some(set_container_lens(wrap_container(heap, model).ct[1], lens)),
          H |-> wrap_container(heap, model).H] : l \in OrLenses(lens)}
   ELSE {})

\* del item[:]: the caller empties the list that was got
Clear ==
  /\ pc = "got" /\ IsList(model) /\ Len(heap[model].e) >= 1
  /\ heap' = [heap EXCEPT ![model].e = <<>>]
  /\ edit' = "clear" /\ pc' = "edited"
  /\ UNCHANGED <<check_consumption, lens, input, model, got, call, before, res, res2, back>>
  /\ UNCHANGED scope_vars

\* output = or_lens._put(item, concrete_input_reader, current_container)
OrPut ==
  /\ pc \in {"got", "edited"}
  /\ \E c \in OrPutCalls, rd \in DirectReaders :
       \E s \in {get_rollbackables_state(c.H, rd, c.ct, TRUE)} :
         \E r \in {Or_put(c.l, 1, s.state, c.item, rd, c.ct, s.H)} :
            /\ Len(c.l.lenses) >= 2
            /\ item_lens' = c.l
            /\ item_reader' = rd
            /\ before' = [H |-> c.H, model |-> model]
            /\ container' = [before |-> c.ct, after |-> r.ct, candidate |-> 0]
            /\ heap' = r.H
            /\ res' = Outcome(r)
  /\ pc' = "or_put"
  /\ UNCHANGED <<check_consumption, lens, input, model, got, edit, call, res2, back>>
  /\ UNCHANGED <<concrete_reader, cloned_reader, o_3, rollback_context>>

OrNext ==
  \/ Get
  \/ Rotate
  \/ Delete
  \/ Insert
  \/ Replace
  \/ Relabel
  \/ Pick
  \/ Create
  \/ Clear
  \/ OrPut

OrSpec == Init /\ [][OrNext]_vars

\* Or._put raised LensException after it had tried every branch.
OrPutFailed == pc = "or_put" /\ res.st = "LensException"

\* The container of the call holds the item objects and the label it held.
ContainerKept ==
  container.before # None =>
    /\ container.after = container.before
    /\ CandidatesAfter = CandidatesBefore

\* The items and the label of the container have the values they had.
ContentsKept ==
  container.before # None =>
    /\ Len(CandidatesAfter) = Len(CandidatesBefore)
    /\ \A i \in DOMAIN CandidatesBefore :
         i \in DOMAIN CandidatesAfter =>
           ValueOf(heap, CandidatesAfter[i]) = ValueOf(before.H, CandidatesBefore[i])
    /\ container.after # None
    /\ ValueOf(heap, container.after[1].label)
         = ValueOf(before.H, container.before[1].label)

\* C38: when Or._put with two or more branches raises LensException after
\* trying every straight PUT, get-and-discard and cross PUT, the position of
\* the input reader and the contents of the container equal their values at
\* entry to Or._put.
C38_FailedOrPut == OrPutFailed => (ReaderKept /\ ContentsKept)

\* The same for the reader and for the item objects of the container.
C38_FailedOrPut_shallow == OrPutFailed => (ReaderKept /\ ContainerKept)

\* The same for the reader alone.
C38_FailedOrPut_reader == OrPutFailed => ReaderKept

\* The contents are kept where the container held an item at entry.
C38_FailedOrPut_nonempty ==
  (OrPutFailed /\ container.before # None /\ CandidatesBefore # <<>>)
    => (ReaderKept /\ ContentsKept)

C38_witness_nonempty ==
  /\ OrPutFailed /\ container.before # None /\ CandidatesBefore # <<>>
  /\ item_reader # None /\ ~is_fully_consumed(item_reader[1])

\* A branch consumed input from a reader that had moved before every cross
\* PUT failed.
C38_witness_reader ==
  /\ OrPutFailed /\ res.exc = "LensException"
  /\ item_reader # None /\ get_pos(item_reader[1]) = 1
  /\ ~is_fully_consumed(item_reader[1])

====
